---- MODULE Spec2Model ----
(***************************************************************************)
(* Model of the universal swap aggregation gateway: the execution          *)
(* coordinator (SwapExecutionService), the quote orchestrator and health   *)
(* monitor (AggregatorManagerService), the legacy quote fan-out            *)
(* (QuoteService) and the gateway controller (UniversalSwapController).    *)
(*                                                                         *)
(* Each subsystem has its own group of variables and its own               *)
(* specification; a specification keeps the other groups at their idle     *)
(* values:                                                                 *)
(*   SpecExec    one run of SwapExecutionService.executeSwap               *)
(*   SpecSel     one AggregatorManagerService.getQuote call                *)
(*   SpecFan     one quote fan-out (getMultipleQuotes of the manager, of   *)
(*               the gateway controller, of QuoteService;                  *)
(*               getCrossChainRoutes)                                      *)
(*   SpecHealth  concurrent getProviderHealth lookups under a clock        *)
(*   SpecBoot    application start-up: provider self-registration, the     *)
(*               registration barrier, the first requests                  *)
(*   SpecRegistry  calls of the IAggregatorRegistry interface in any order *)
(*   SpecLog, SpecRate   one HTTP request through the logging              *)
(*               interceptor; the rate-limit guard under a clock           *)
(*   SpecBest, SpecCompare, SpecMinOutput   quote comparison and the       *)
(*               minimum output of a quote                                 *)
(*   SpecRouting  chain compatibility and swap-type classification         *)
(*   SpecPermit2  the Permit2 signature splice                             *)
(*   SpecApproval  the approval decisions for a sell token                 *)
(*   SpecParse, SpecTranslate   receipt parsing and error translation      *)
(*   SpecPreCheck  the five probes of the universal pre-check              *)
(*   SpecValidate  input validation of QuoteService.getQuote               *)
(*   SpecOdos     the Odos quote, assembly and refresh pipeline            *)
(***************************************************************************)
EXTENDS Integers, Sequences, FiniteSets, TLC

\* ---- execution coordinator (SwapExecutionService.executeSwap) ----------
VARIABLES pc, sellNative, permit2Chain, retryCount, quote, approvalNeeded,
          approvalVia, approvalTx, swapTx, swapData, calls,
          delays, waited, receiptTimeout, broadcasts, receiptStatus

\* The backoff sleeps taken so far, the minutes spent in the confirmation
\* wait and the timeout that wait runs under.
timeVars == <<delays, waited, receiptTimeout>>

\* The swap transactions the node has accepted and the status of the
\* receipt the confirmation wait returned.
chainVars == <<broadcasts, receiptStatus>>

execVars == <<pc, sellNative, permit2Chain, retryCount, quote, approvalNeeded,
              approvalVia, approvalTx, swapTx, swapData, calls, timeVars,
              chainVars>>

\* ---- registry and health cache (AggregatorManagerService) ---------------
VARIABLES evmAggregators, healthCache, now

mgrVars == <<evmAggregators, healthCache, now>>

\* ---- quote selection (AggregatorManagerService.getQuote) -----------------
VARIABLES selPc, req, phase, seen, ranked, todo, tried, attempts, result,
          dynRuns

selVars == <<selPc, req, phase, seen, ranked, todo, tried, attempts, result,
             dynRuns>>

\* ---- quote fan-out (getMultipleQuotes, getCrossChainRoutes) --------------
VARIABLES fanPc, fanKind, fanChain, fanProviders, settled, completion,
          fanOk, fanResult

fanVars == <<fanPc, fanKind, fanChain, fanProviders, settled, completion,
             fanOk, fanResult>>

\* ---- concurrent health lookups (getProviderHealth) ----------------------
VARIABLES lookups

\* ---- provider registration (IAggregatorRegistry, SwapModule) -------------
VARIABLES bootPc, hooksRun, metaKeys, boundTo, aggregators,
          registrationComplete, regLog, barrierCalls, served, lastCall

bootVars == <<bootPc, hooksRun, metaKeys, boundTo, aggregators,
              registrationComplete, regLog, barrierCalls, served, lastCall>>

\* ---- one HTTP request through the logging interceptor -------------------
VARIABLES httpPc, httpReq, httpOutcome, httpLog

httpVars == <<httpPc, httpReq, httpOutcome, httpLog>>

\* ---- rate-limit guard (RateLimitGuard) ----------------------------------
VARIABLES requests, rateNow, history

rateVars == <<requests, rateNow, history>>

\* ---- one call of a side-effect-free method: arguments and result -------
VARIABLES callPc, callArgs, callResult

callVars == <<callPc, callArgs, callResult>>

extVars == <<bootVars, httpVars, rateVars, callVars>>

nonBootVars == <<execVars, selVars, fanVars, lookups, httpVars, rateVars,
                 callVars>>

\* Everything but the variables of an HTTP request, of the rate-limit
\* guard, of a method call.
nonHttpVars == <<execVars, mgrVars, selVars, fanVars, lookups, bootVars,
                 rateVars, callVars>>

nonRateVars == <<execVars, mgrVars, selVars, fanVars, lookups, bootVars,
                 httpVars, callVars>>

nonCallVars == <<execVars, mgrVars, selVars, fanVars, lookups, bootVars,
                 httpVars, rateVars>>

nonExecVars == <<mgrVars, selVars, fanVars, lookups, extVars>>

vars == <<execVars, mgrVars, selVars, fanVars, lookups, extVars>>

\* ------------------------------------------------------------------------
\* Registry, adapters and health cache
\* ------------------------------------------------------------------------

\* getProviderName() of the adapters that register through
\* registerEvmAggregator: ZeroXService, OdosService, and one further
\* IOnchainAggregator.
ProviderNames == {"0x", "Odos", "other"}

\* getProviderName() of the meta aggregators that register through
\* registerMetaAggregator, in the modelled registration order.
metaAggregators == <<"LI.FI", "Socket", "Rango">>

\* Keys of the health cache: provider names of every category.
CacheKeys == ProviderNames \cup {"LI.FI", "Socket", "Rango"}

\* Chain ids of the modelled requests: Ethereum, Polygon, zkSync Era (served
\* by Odos only) and one chain no adapter serves.
Chains == {1, 137, 324, 25}

\* provider.supportsChain(chainId), restricted to Chains and Base (8453).
SupportsChain(name, chainId) ==
    CASE name = "0x" -> chainId \in {1, 137, 8453}
      [] name = "Odos" -> chainId \in {1, 137, 324, 8453}
      [] name = "other" -> chainId \in {1, 137}

\* getProviderName().toLowerCase()
ToLowerCase(name) ==
    CASE name = "Odos" -> "odos"
      [] name = "LI.FI" -> "li.fi"
      [] name = "Socket" -> "socket"
      [] name \in {"0xEeeeeEeeeEeEeeEeEeEeeEEEeeeeEeeeeeeeEEeE",
                   "0xEEEEEEEEEEEEEEEEEEEEEEEEEEEEEEEEEEEEEEEE"}
           -> "0xeeeeeeeeeeeeeeeeeeeeeeeeeeeeeeeeeeeeeeee"
      [] name = "0xA0b86991c6218b36c1d19D4a2e9Eb0cE3606eB48"
           -> "0xa0b86991c6218b36c1d19d4a2e9eb0ce3606eb48"
      [] name = "0x52908400098527886E0F7030069857D2E4169EE7"
           -> "0x52908400098527886e0f7030069857d2e4169ee7"
      [] OTHER -> name

\* Registration orders of the evmAggregators map (insertion order): both
\* built-in adapters self-register in module-init order, a further adapter
\* may register at any point.
RECURSIVE SeqsOver(_, _)
SeqsOver(S, n) ==
    IF n = 0 THEN {<<>>}
    ELSE LET shorter == SeqsOver(S, n - 1)
         IN shorter \cup {Append(q, x) : q \in shorter, x \in S}

Range(q) == {q[i] : i \in 1..Len(q)}

NoDuplicates(q) == \A i, j \in 1..Len(q) : i # j => q[i] # q[j]

RegistryOrders ==
    {q \in SeqsOver(ProviderNames, Cardinality(ProviderNames)) :
        /\ NoDuplicates(q)
        /\ {"0x", "Odos"} \subseteq Range(q)}

\* private readonly healthCacheTimeout = 5 * 60 * 1000, in minutes
healthCacheTimeout == 5

\* Last modelled clock value (minutes).
MaxTime == 6

NoHealth == [status |-> "none", latency |-> 0, errorPct |-> 0, lastCheck |-> 0]

\* Results of provider.healthCheck(): status, latency in ms (0: absent) and
\* errorRate * 100.  The last one is also what getProviderHealth stores
\* when healthCheck throws.
HealthProbes ==
    { [status |-> "healthy", latency |-> 40, errorPct |-> 0],
      [status |-> "healthy", latency |-> 120, errorPct |-> 10],
      [status |-> "degraded", latency |-> 40, errorPct |-> 50],
      [status |-> "unhealthy", latency |-> 0, errorPct |-> 100] }

\* lastCheck: new Date()
Stamp(probe, t) ==
    [status |-> probe.status, latency |-> probe.latency,
     errorPct |-> probe.errorPct, lastCheck |-> t]

CacheFresh_Inclusive(cache, name, t) ==
    /\ cache[name] # NoHealth
    /\ (t - cache[name].lastCheck) <= healthCacheTimeout

\* getProviderHealth: cached && (Date.now() - cached.lastCheck) < timeout
CacheFresh(cache, name, t) ==
    /\ cache[name] # NoHealth
    /\ (t - cache[name].lastCheck) < healthCacheTimeout

\* The cache after getProviderHealth(name) with the probe answering `probe`.
GetProviderHealth(cache, name, probe, t) ==
    IF CacheFresh(cache, name, t)
    THEN cache
    ELSE [cache EXCEPT ![name] = Stamp(probe, t)]

\* The providers among `names` whose lookup calls healthCheck().
NeedProbe(cache, names, t) ==
    {n \in Range(names) : ~CacheFresh(cache, n, t)}

\* A loop of awaited getProviderHealth calls over the providers `names`.
RECURSIVE LookupAll(_, _, _, _)
LookupAll(cache, names, probes, t) ==
    IF names = <<>> THEN cache
    ELSE LET n == Head(names)
             probe == IF n \in DOMAIN probes THEN probes[n] ELSE NoHealth
         IN LookupAll(GetProviderHealth(cache, n, probe, t),
                      Tail(names), probes, t)

MgrIdle ==
    /\ evmAggregators = <<>>
    /\ healthCache = [n \in CacheKeys |-> NoHealth]
    /\ now = 0

\* ------------------------------------------------------------------------
\* Idle values of the quote selection, the quote fan-out and the lookups
\* ------------------------------------------------------------------------

\* Concurrent callers of getProviderHealth (requests being served).
Callers == {"r1", "r2"}

\* A caller's lookup: the provider asked for, the age of the cached entry
\* when the lookup read the cache (-1: no entry), whether healthCheck() was
\* called, and what the lookup read and returned.
IdleLookup == [state |-> "idle", name |-> "none", age |-> 0 - 1,
               probed |-> FALSE, read |-> NoHealth, returned |-> NoHealth]

LookupsIdle == lookups = [c \in Callers |-> IdleLookup]

FanIdle ==
    /\ fanPc = "idle"
    /\ fanKind = "none"
    /\ fanChain = 0
    /\ fanProviders = <<>>
    /\ settled = <<>>
    /\ completion = <<>>
    /\ fanOk = [n \in ProviderNames |-> FALSE]
    /\ fanResult = <<>>

NoRequest == [chainId |-> 0, aggregatorType |-> "none",
              approvalStrategy |-> "none", sellAmount |-> 0]

SelIdle ==
    /\ selPc = "idle"
    /\ req = NoRequest
    /\ phase = "none"
    /\ seen = [n \in ProviderNames |-> "none"]
    /\ ranked = <<>>
    /\ todo = <<>>
    /\ tried = <<>>
    /\ attempts = <<>>
    /\ result = "none"
    /\ dynRuns = 0

\* ------------------------------------------------------------------------
\* Idle values of the provider registration
\* ------------------------------------------------------------------------

\* Adapter instances.  SwapModule constructs zeroX, odos, lifi and socket;
\* odosB is a second object whose getProviderName() is also 'Odos'.
Instances == {"zeroX", "odos", "odosB", "lifi", "socket"}

\* getProviderName() of an adapter instance.
GetProviderName(provider) ==
    CASE provider = "zeroX" -> "0x"
      [] provider \in {"odos", "odosB"} -> "Odos"
      [] provider = "lifi" -> "LI.FI"
      [] OTHER -> "Socket"

RegistryNames == {GetProviderName(i) : i \in Instances}

\* ProviderCategory values that select a category map.
Categories == {"evm", "meta"}

NoProvider == "none"

\* The registry call made by the latest step.
NoCall == [op |-> "none", provider |-> NoProvider, category |-> "none"]

BootIdle ==
    /\ bootPc = "off"
    /\ hooksRun = {}
    /\ metaKeys = <<>>
    /\ boundTo = [c \in Categories |-> [n \in RegistryNames |-> NoProvider]]
    /\ aggregators = [t \in {"0x", "odos"} |-> NoProvider]
    /\ registrationComplete = FALSE
    /\ regLog = <<>>
    /\ barrierCalls = 0
    /\ served = <<>>
    /\ lastCall = NoCall

\* Client addresses (request.ip).
ClientIps == {"ip1", "ip2"}

NoBody == [endpoint |-> "none", ip |-> "none", privateKey |-> "none",
           tokenAddress |-> "none", amount |-> "none"]

HttpIdle ==
    /\ httpPc = "idle"
    /\ httpReq = NoBody
    /\ httpOutcome = "none"
    /\ httpLog = <<>>

\* No entry of the requests map.
NoEntry == [count |-> 0, resetTime |-> 0]

RateIdle ==
    /\ requests = [ip \in ClientIps |-> NoEntry]
    /\ rateNow = 0
    /\ history = <<>>

CallIdle ==
    /\ callPc = "idle"
    /\ callArgs = <<>>
    /\ callResult = <<>>

ExtIdle == BootIdle /\ HttpIdle /\ RateIdle /\ CallIdle

NoQuote == [present |-> FALSE, allowanceTarget |-> FALSE, permit2 |-> FALSE]

\* const maxRetries = 3
maxRetries == 3

\* ------------------------------------------------------------------------
\* Execution coordinator
\* ------------------------------------------------------------------------

ExecIdle ==
    /\ pc = "idle"
    /\ sellNative = FALSE
    /\ permit2Chain = FALSE
    /\ retryCount = 0
    /\ quote = NoQuote
    /\ approvalNeeded = "unknown"
    /\ approvalVia = "none"
    /\ approvalTx = "none"
    /\ swapTx = "none"
    /\ swapData = "none"
    /\ calls = <<>>
    /\ delays = <<>>
    /\ waited = 0
    /\ receiptTimeout = 0
    /\ broadcasts = 0
    /\ receiptStatus = "none"

Log(op, ok) == calls' = Append(calls, [op |-> op, ok |-> ok])

\* executeSwap entry: validateSwapInputs throws or the request is built.
\* permit2Chain: the request's chainId is in Permit2Service.permit2Addresses.
ExecuteSwapStart ==
    /\ pc = "idle"
    /\ \E native \in BOOLEAN, p2chain \in BOOLEAN, valid \in BOOLEAN :
          /\ sellNative' = native
          /\ permit2Chain' = p2chain
          /\ pc' = IF valid THEN "preflight" ELSE "failed"
    /\ UNCHANGED <<retryCount, quote, approvalNeeded, approvalVia, approvalTx,
                   swapTx, swapData, calls>>
    /\ UNCHANGED <<timeVars, chainVars, nonExecVars>>

\* performPreFlightChecks: balance, aggregator support, token addresses.
PerformPreFlightChecks ==
    /\ pc = "preflight"
    /\ \E ok \in BOOLEAN : pc' = IF ok THEN "quote" ELSE "failed"
    /\ UNCHANGED <<sellNative, permit2Chain, retryCount, quote, approvalNeeded,
                   approvalVia, approvalTx, swapTx, swapData, calls>>
    /\ UNCHANGED <<timeVars, chainVars, nonExecVars>>

\* retryCount = 0 and the swap submission loop.
EnterSwapLoop ==
    /\ pc' = "swap"
    /\ retryCount' = 0

\* if (!isNativeToken(sellToken)) await this.handleApproval(...)
AfterQuote ==
    IF sellNative
    THEN EnterSwapLoop
    ELSE pc' = "approval" /\ retryCount' = retryCount

\* await new Promise(resolve => setTimeout(resolve, ms))
Sleep(loop, ms) == Append(delays, [loop |-> loop, ms |-> ms])

\* A backoff of one second whatever the attempt.
QuoteBackoff_Constant(failures) == 1000

\* 1000 * retryCount
QuoteBackoff(failures) == 1000 * failures

\* 2000 * retryCount
SwapBackoff(failures) == 2000 * failures

\* One pass of the quote retry loop.
GetQuoteAttempt ==
    /\ pc = "quote"
    /\ \/ \E target \in BOOLEAN, p2 \in BOOLEAN :
             /\ quote' = [present |-> TRUE, allowanceTarget |-> target,
                          permit2 |-> p2]
             /\ Log("getQuote", TRUE)
             /\ AfterQuote
             /\ UNCHANGED delays
       \/ /\ Log("getQuote", FALSE)
          /\ retryCount' = retryCount + 1
          /\ pc' = IF retryCount + 1 >= maxRetries THEN "failed" ELSE "quote"
          /\ delays' = IF retryCount + 1 >= maxRetries THEN delays
                        ELSE Sleep("quote", QuoteBackoff(retryCount + 1))
          /\ UNCHANGED quote
    /\ UNCHANGED <<sellNative, permit2Chain, approvalNeeded, approvalVia,
                   approvalTx, swapTx, swapData>>
    /\ UNCHANGED <<waited, receiptTimeout, chainVars, nonExecVars>>

\* ApprovalService.isApprovalNeeded for a non-native token: the Permit2
\* allowance when the chain has Permit2 and the token answers as ERC-20,
\* else the ERC-20 allowance.
IsApprovalNeeded(compatible, permit2AllowanceOk, erc20AllowanceOk) ==
    IF permit2Chain /\ compatible
    THEN ~permit2AllowanceOk
    ELSE ~erc20AllowanceOk

\* ApprovalService.isPermit2Available for a non-native token.
IsPermit2Available(compatible) == permit2Chain /\ compatible

\* handleApproval, up to the answer of isApprovalNeeded.
HandleApprovalCheck ==
    /\ pc = "approval"
    /\ \/ /\ ~quote.allowanceTarget
          /\ pc' = "failed"
          /\ UNCHANGED <<approvalNeeded, retryCount>>
       \/ /\ quote.allowanceTarget
          /\ \/ \E compatible \in BOOLEAN, p2ok \in BOOLEAN, ercok \in BOOLEAN :
                   IF IsApprovalNeeded(compatible, p2ok, ercok)
                   THEN /\ approvalNeeded' = "yes"
                        /\ pc' = "permit2Check"
                        /\ UNCHANGED retryCount
                   ELSE /\ approvalNeeded' = "no"
                        /\ EnterSwapLoop
             \/ \* the allowance read throws
                /\ pc' = "failed"
                /\ UNCHANGED <<approvalNeeded, retryCount>>
    /\ UNCHANGED <<sellNative, permit2Chain, quote, approvalVia, approvalTx,
                   swapTx, swapData, calls>>
    /\ UNCHANGED <<timeVars, chainVars, nonExecVars>>

\* handleApproval: Permit2 available => only log lines; else go on to the
\* traditional approval transaction.
HandleApprovalPermit2Check ==
    /\ pc = "permit2Check"
    /\ \E compatible \in BOOLEAN :
          IF IsPermit2Available(compatible)
          THEN /\ approvalVia' = "permit2"
               /\ EnterSwapLoop
          ELSE /\ approvalVia' = "traditional"
               /\ pc' = "approvalSubmit"
               /\ UNCHANGED retryCount
    /\ UNCHANGED <<sellNative, permit2Chain, quote, approvalNeeded, approvalTx,
                   swapTx, swapData, calls>>
    /\ UNCHANGED <<timeVars, chainVars, nonExecVars>>

AfterApprovalSubmitted_NoWait ==
    EnterSwapLoop

\* await this.walletService.waitForTransactionConfirmation(approval hash)
AfterApprovalSubmitted ==
    pc' = "approvalWait" /\ retryCount' = retryCount

\* approvalService.executeApproval
ExecuteApproval ==
    /\ pc = "approvalSubmit"
    /\ \/ /\ approvalTx' = "submitted"
          /\ Log("executeApproval", TRUE)
          /\ AfterApprovalSubmitted
       \/ /\ Log("executeApproval", FALSE)
          /\ pc' = "failed"
          /\ UNCHANGED <<approvalTx, retryCount>>
    /\ UNCHANGED <<sellNative, permit2Chain, quote, approvalNeeded, approvalVia,
                   swapTx, swapData>>
    /\ UNCHANGED <<timeVars, chainVars, nonExecVars>>

WaitForApprovalConfirmation ==
    /\ pc = "approvalWait"
    /\ \/ /\ approvalTx' = "confirmed"
          /\ Log("waitApproval", TRUE)
          /\ EnterSwapLoop
       \/ /\ Log("waitApproval", FALSE)
          /\ pc' = "failed"
          /\ UNCHANGED <<approvalTx, retryCount>>
    /\ UNCHANGED <<sellNative, permit2Chain, quote, approvalNeeded, approvalVia,
                   swapTx, swapData>>
    /\ UNCHANGED <<timeVars, chainVars, nonExecVars>>

\* The calldata handed to walletService.executeSwap: quote.data as quoted.
SwapPayload == "quote.data"

\* The timeout, in minutes, of client.waitForTransactionReceipt({hash,
\* confirmations}): executeSwap passes none, so the wait runs under the
\* client library's default, three minutes or no timeout (0) depending on
\* the library version.
ReceiptTimeouts == {0, 3}

\* Minutes of waiting the model follows.
MaxWait == 7

\* One pass of the swap submission retry loop.  sendTransaction reads the
\* account's nonce, signs and sends; it returns the hash, or throws.  A
\* throw can come before the node saw the transaction or after the node
\* accepted it (the reply timed out or was lost).
ExecuteSwapAttempt ==
    /\ pc = "swap"
    /\ \/ /\ swapTx' = "submitted"
          /\ swapData' = SwapPayload
          /\ Log("executeSwap", TRUE)
          /\ pc' = "confirm"
          /\ broadcasts' = broadcasts + 1
          /\ \E timeout \in ReceiptTimeouts : receiptTimeout' = timeout
          /\ UNCHANGED <<retryCount, delays>>
       \/ /\ Log("executeSwap", FALSE)
          /\ \E accepted \in BOOLEAN :
                broadcasts' = IF accepted THEN broadcasts + 1 ELSE broadcasts
          /\ retryCount' = retryCount + 1
          /\ pc' = IF retryCount + 1 >= maxRetries THEN "failed" ELSE "swap"
          /\ delays' = IF retryCount + 1 >= maxRetries THEN delays
                        ELSE Sleep("swap", SwapBackoff(retryCount + 1))
          /\ UNCHANGED <<swapTx, swapData, receiptTimeout>>
    /\ UNCHANGED <<sellNative, permit2Chain, quote, approvalNeeded, approvalVia,
                   approvalTx>>
    /\ UNCHANGED <<waited, receiptStatus, nonExecVars>>

\* A minute passes while waitForTransactionReceipt polls and its timeout
\* has not run out.
ConfirmationTick ==
    /\ pc = "confirm"
    /\ waited < MaxWait
    /\ receiptTimeout = 0 \/ waited < receiptTimeout
    /\ waited' = waited + 1
    /\ UNCHANGED <<pc, sellNative, permit2Chain, retryCount, quote,
                   approvalNeeded, approvalVia, approvalTx, swapTx, swapData,
                   calls, delays, receiptTimeout, chainVars>>
    /\ UNCHANGED nonExecVars

\* The receipt arrives, or the wait fails (RPC error, or the timeout).
\* waitForTransactionReceipt returns the receipt of a mined transaction
\* whether it succeeded or reverted.
WaitForSwapConfirmation ==
    /\ pc = "confirm"
    /\ \/ /\ receiptTimeout = 0 \/ waited < receiptTimeout
          /\ swapTx' = "confirmed"
          /\ \E status \in {"success", "reverted"} :
                receiptStatus' = status
          /\ Log("waitSwap", TRUE)
          /\ pc' = "parse"
       \/ /\ Log("waitSwap", FALSE)
          /\ pc' = "failed"
          /\ UNCHANGED <<swapTx, receiptStatus>>
    /\ UNCHANGED <<sellNative, permit2Chain, retryCount, quote, approvalNeeded,
                   approvalVia, approvalTx, swapData>>
    /\ UNCHANGED <<timeVars, broadcasts, nonExecVars>>

ParseSwapResult ==
    /\ pc = "parse"
    /\ pc' = "done"
    /\ UNCHANGED <<sellNative, permit2Chain, retryCount, quote, approvalNeeded,
                   approvalVia, approvalTx, swapTx, swapData, calls>>
    /\ UNCHANGED <<timeVars, chainVars, nonExecVars>>

NextExec ==
    \/ ExecuteSwapStart
    \/ PerformPreFlightChecks
    \/ GetQuoteAttempt
    \/ HandleApprovalCheck
    \/ HandleApprovalPermit2Check
    \/ ExecuteApproval
    \/ WaitForApprovalConfirmation
    \/ ExecuteSwapAttempt
    \/ ConfirmationTick
    \/ WaitForSwapConfirmation
    \/ ParseSwapResult

InitExec ==
    ExecIdle /\ MgrIdle /\ SelIdle /\ FanIdle /\ LookupsIdle /\ ExtIdle

SpecExec == InitExec /\ [][NextExec]_vars

\* Position of an external call in the coordinator's step order
\* quote -> approval -> swap -> confirmation.
StepRank(op) ==
    CASE op = "getQuote" -> 1
      [] op = "executeApproval" -> 2
      [] op = "waitApproval" -> 3
      [] op = "executeSwap" -> 4
      [] op = "waitSwap" -> 5

\* C1: within one swap execution the external calls occur in the order
\* quote -> approval -> swap -> confirmation, and a swap submission that
\* follows a submitted approval transaction also follows the observed
\* confirmation of that approval: the swap is never submitted while a
\* submitted approval is unconfirmed.
C1_StepsOrdered ==
    /\ \A i, j \in 1..Len(calls) :
          i < j => StepRank(calls[i].op) <= StepRank(calls[j].op)
    /\ \A j \in 1..Len(calls) :
          calls[j].op = "executeSwap" =>
             /\ \E i \in 1..(j-1) : calls[i].op = "getQuote" /\ calls[i].ok
             /\ (\E i \in 1..(j-1) : calls[i].op = "executeApproval" /\ calls[i].ok)
                   => \E k \in 1..(j-1) : calls[k].op = "waitApproval" /\ calls[k].ok
    /\ \A j \in 1..Len(calls) :
          calls[j].op = "waitSwap" =>
             \E i \in 1..(j-1) : calls[i].op = "executeSwap" /\ calls[i].ok
    /\ (pc \in {"swap", "confirm", "parse", "done"} \/ swapTx # "none")
          => approvalTx # "submitted"

\* An execution that submitted an approval, saw it confirmed, and then
\* submitted and confirmed the swap.
C1_Witness ==
    /\ pc = "done"
    /\ approvalTx = "confirmed"
    /\ swapTx = "confirmed"

\* C2: when the needed approval of a non-native sell token is handled
\* through Permit2, no approval transaction is submitted and the submitted
\* swap carries the signed permit (quote data spliced with the signature);
\* a swap is never submitted with neither a sufficient or confirmed
\* allowance nor a permit signature.
C2_Permit2SignatureBound ==
    /\ (~sellNative /\ approvalVia = "permit2") =>
          /\ approvalTx = "none"
          /\ swapTx # "none" => swapData = "quote.data+signature"
    /\ (~sellNative /\ swapTx # "none") =>
          \/ approvalNeeded = "no"
          \/ approvalTx = "confirmed"
          \/ swapData = "quote.data+signature"


\* ------------------------------------------------------------------------
\* Quote orchestrator: getQuote, getEvmQuote, getDynamicQuote
\* ------------------------------------------------------------------------

\* enum AggregatorType { ZEROX = '0x', ODOS = 'odos' }
AggregatorTypes == {"0x", "odos"}

\* sellAmount in units of 1e18 base units
SellAmounts == {1, 5000}

\* amount > 1e21, in units of 1e18
LargeTradeThreshold == 1000

Max(a, b) == IF a >= b THEN a ELSE b

\* mapAggregatorTypeToProviderName
MapAggregatorTypeToProviderName(aggregatorType) ==
    CASE aggregatorType = "0x" -> "0x"
      [] aggregatorType = "odos" -> "odos"
      [] OTHER -> "0x"

\* getProvidersForChain: evmAggregators.values() filtered by supportsChain
ProvidersForChain(registry, chainId) ==
    LET Supports(n) == SupportsChain(n, chainId)
    IN SelectSeq(registry, Supports)

\* health.status === 'healthy'
IsHealthyStatus_NotUnhealthy(health) == health.status # "unhealthy"

IsHealthyStatus(health) == health.status = "healthy"

\* filterHealthyProviders over the health each lookup returned
FilterHealthyProviders(providers, cache) ==
    LET Healthy(n) == IsHealthyStatus(cache[n])
    IN SelectSeq(providers, Healthy)

\* calculateProviderScore
CalculateProviderScore(name, health, request) ==
    LET healthPart ==
            IF health.status = "healthy"
            THEN 50
                 + (IF health.latency # 0
                    THEN Max(0, 100 - health.latency) ELSE 0)
                 - health.errorPct
            ELSE 0 - 100
        providerName == ToLowerCase(name)
        chainPart ==
            IF request.chainId = 1
            THEN (IF providerName = "0x" THEN 20 ELSE 0)
            ELSE IF request.chainId = 137
                 THEN (IF providerName = "odos" THEN 15 ELSE 0)
                 ELSE 0
        sizePart ==
            IF /\ request.sellAmount # 0
               /\ request.sellAmount > LargeTradeThreshold
               /\ providerName = "0x"
            THEN 10 ELSE 0
        featurePart ==
            IF request.approvalStrategy = "permit2" /\ providerName = "0x"
            THEN 25 ELSE 0
    IN Max(0, 100 + healthPart + chainPart + sizePart + featurePart)

\* Array.prototype.sort with (a, b) => b.score - a.score: stable, descending
InsertByScore(x, sorted) ==
    LET k == Cardinality({i \in 1..Len(sorted) : sorted[i].score >= x.score})
    IN SubSeq(sorted, 1, k) \o <<x>> \o SubSeq(sorted, k + 1, Len(sorted))

RECURSIVE SortByScore(_)
SortByScore(q) ==
    IF q = <<>> THEN <<>>
    ELSE InsertByScore(q[Len(q)], SortByScore(SubSeq(q, 1, Len(q) - 1)))

RankOrder_Unsorted(scored) == scored

\* ranked.sort((a, b) => b.score - a.score)
RankOrder(scored) == SortByScore(scored)

\* rankProvidersByPerformance over the health each lookup returned
RankProvidersByPerformance(providers, cache, request) ==
    RankOrder([i \in 1..Len(providers) |->
                 [name |-> providers[i],
                  score |-> CalculateProviderScore(providers[i],
                                                   cache[providers[i]],
                                                   request)]])

\* getQuote(request, aggregatorType?)
GetQuoteStart ==
    /\ selPc = "idle"
    /\ \E c \in Chains, t \in {"none"} \cup AggregatorTypes,
          st \in {"none", "permit2"}, amt \in SellAmounts :
          /\ req' = [chainId |-> c, aggregatorType |-> t,
                     approvalStrategy |-> st, sellAmount |-> amt]
          /\ selPc' = IF t = "none" THEN "dynamic" ELSE "evm"
    /\ UNCHANGED <<phase, seen, ranked, todo, tried, attempts, result, dynRuns>>
    /\ UNCHANGED <<mgrVars, execVars, fanVars, lookups, extVars>>

\* getEvmQuote: getHealthyEvmProviders, then find the preferred provider by
\* p.getProviderName() === preferredProvider.
GetEvmQuoteFindPreferred ==
    /\ selPc = "evm"
    /\ LET supported == ProvidersForChain(evmAggregators, req.chainId) IN
       \E probes \in [NeedProbe(healthCache, supported, now) -> HealthProbes] :
          LET cache == LookupAll(healthCache, supported, probes, now)
              IsHealthy(n) == cache[n].status = "healthy"
              healthy == SelectSeq(supported, IsHealthy)
              preferred == MapAggregatorTypeToProviderName(req.aggregatorType)
          IN /\ healthCache' = cache
             /\ IF \E i \in 1..Len(healthy) : healthy[i] = preferred
                THEN todo' = <<preferred>> /\ selPc' = "preferred"
                ELSE todo' = todo /\ selPc' = "dynamic"
    /\ UNCHANGED <<req, phase, seen, ranked, tried, attempts, result, dynRuns>>
    /\ UNCHANGED <<evmAggregators, now, execVars, fanVars, lookups, extVars>>

\* getEvmQuote: the single attempt at the preferred provider.
TryPreferredProvider ==
    /\ selPc = "preferred"
    /\ \E ok \in BOOLEAN :
          /\ attempts' = Append(attempts, [name |-> Head(todo),
                                           phase |-> "preferred", ok |-> ok])
          /\ IF ok
             THEN result' = Head(todo) /\ selPc' = "done"
             ELSE result' = result /\ selPc' = "dynamic"
    /\ todo' = <<>>
    /\ UNCHANGED <<req, phase, seen, ranked, tried, dynRuns>>
    /\ UNCHANGED <<mgrVars, execVars, fanVars, lookups, extVars>>

\* getDynamicQuote throws: the run started inside getEvmQuote is caught by
\* getQuote, which runs getDynamicQuote once more; otherwise the error
\* reaches the caller.
DynamicQuoteThrows(run) ==
    selPc' = IF req.aggregatorType # "none" /\ run = 1
             THEN "dynamic" ELSE "error"


\* getDynamicQuote up to the choice between ranked and fallback mode:
\* getProvidersForChain, filterHealthyProviders.
GetDynamicQuoteFilter ==
    /\ selPc = "dynamic"
    /\ dynRuns' = dynRuns + 1
    /\ tried' = <<>>
    /\ ranked' = <<>>
    /\ LET supported == ProvidersForChain(evmAggregators, req.chainId)
       IN IF supported = <<>>
          THEN /\ DynamicQuoteThrows(dynRuns + 1)
               /\ phase' = "none"
               /\ seen' = [n \in ProviderNames |-> "none"]
               /\ todo' = <<>>
               /\ UNCHANGED healthCache
          ELSE \E probes \in [NeedProbe(healthCache, supported, now)
                                -> HealthProbes] :
                  LET cache == LookupAll(healthCache, supported, probes, now)
                      healthy == FilterHealthyProviders(supported, cache)
                  IN /\ healthCache' = cache
                     /\ seen' = [n \in ProviderNames |->
                                   IF n \in Range(supported)
                                   THEN cache[n].status ELSE "none"]
                     /\ IF healthy = <<>>
                        THEN /\ phase' = "fallback"
                             /\ todo' = supported
                             /\ selPc' = "try"
                        ELSE /\ phase' = "dynamic"
                             /\ todo' = healthy
                             /\ selPc' = "rank"
    /\ UNCHANGED <<req, attempts, result>>
    /\ UNCHANGED <<evmAggregators, now, execVars, fanVars, lookups, extVars>>

\* getDynamicQuote: rankProvidersByPerformance over the healthy providers.
GetDynamicQuoteRank ==
    /\ selPc = "rank"
    /\ \E probes \in [NeedProbe(healthCache, todo, now) -> HealthProbes] :
          LET cache == LookupAll(healthCache, todo, probes, now)
              order == RankProvidersByPerformance(todo, cache, req)
          IN /\ healthCache' = cache
             /\ ranked' = order
             /\ todo' = [i \in 1..Len(order) |-> order[i].name]
    /\ selPc' = "try"
    /\ UNCHANGED <<req, phase, seen, tried, attempts, result, dynRuns>>
    /\ UNCHANGED <<evmAggregators, now, execVars, fanVars, lookups, extVars>>

\* One pass of the loop of tryProvidersInOrder / tryProvidersWithFallback,
\* or the throw after the loop.
TryNextProvider ==
    /\ selPc = "try"
    /\ IF todo = <<>>
       THEN /\ DynamicQuoteThrows(dynRuns)
            /\ UNCHANGED <<todo, tried, attempts, result>>
       ELSE \E ok \in BOOLEAN :
               /\ tried' = Append(tried, [name |-> Head(todo), ok |-> ok])
               /\ attempts' = Append(attempts, [name |-> Head(todo),
                                                phase |-> phase, ok |-> ok])
               /\ todo' = Tail(todo)
               /\ IF ok
                  THEN result' = Head(todo) /\ selPc' = "done"
                  ELSE result' = result /\ selPc' = "try"
    /\ UNCHANGED <<req, phase, seen, ranked, dynRuns>>
    /\ UNCHANGED <<mgrVars, execVars, fanVars, lookups, extVars>>

\* One getQuote call is served within the cache timeout: the clock does not
\* move in this specification (SpecHealth moves it).
NextSel ==
    \/ GetQuoteStart
    \/ GetEvmQuoteFindPreferred
    \/ TryPreferredProvider
    \/ GetDynamicQuoteFilter
    \/ GetDynamicQuoteRank
    \/ TryNextProvider

InitSel ==
    /\ ExecIdle
    /\ SelIdle
    /\ FanIdle
    /\ LookupsIdle
    /\ ExtIdle
    /\ evmAggregators \in RegistryOrders
    /\ healthCache = [n \in CacheKeys |-> NoHealth]
    /\ now = 0

SpecSel == InitSel /\ [][NextSel]_vars


\* Names of a sequence of attempt or ranking records.
Names(q) == [i \in 1..Len(q) |-> q[i].name]

\* C3: in dynamic selection, as long as the health filter saw at least one
\* chain-supporting adapter as 'healthy', every adapter that is sent a quote
\* request (or is still queued for one) was seen 'healthy'; selection is in
\* fallback mode exactly when no chain-supporting adapter was seen healthy,
\* and then every chain-supporting adapter is attempted, in registry order.
C3_HealthyOnlyElseFallback ==
    LET supported == ProvidersForChain(evmAggregators, req.chainId)
        someHealthy == \E n \in Range(supported) : seen[n] = "healthy"
    IN phase \in {"dynamic", "fallback"} =>
          /\ someHealthy =>
                /\ phase = "dynamic"
                /\ \A i \in 1..Len(tried) : seen[tried[i].name] = "healthy"
                /\ \A i \in 1..Len(todo) : seen[todo[i]] = "healthy"
          /\ ~someHealthy =>
                /\ phase = "fallback"
                /\ Names(tried) \o todo = supported
                /\ selPc = "try" \/ tried = <<>> \/ tried[Len(tried)].ok
                      \/ Names(tried) = supported

\* Dynamic selection skipped a chain-supporting adapter that was not
\* healthy even though every healthy adapter failed.
C3_Witness ==
    /\ phase = "dynamic"
    /\ selPc = "error"
    /\ tried # <<>>
    /\ \E n \in Range(ProvidersForChain(evmAggregators, req.chainId)) :
          /\ seen[n] \in {"degraded", "unhealthy"}
          /\ \A i \in 1..Len(tried) : tried[i].name # n

\* Fallback mode attempted an adapter that was seen unhealthy and got a
\* quote from the second one it tried.
C3_FallbackReached ==
    /\ phase = "fallback"
    /\ selPc = "done"
    /\ Len(tried) = 2

\* C4: ranked dynamic selection tries the surviving (healthy) adapters one
\* at a time in descending score order; every adapter tried before the last
\* one failed, the quote returned is the one of the last adapter tried, and
\* nothing is called after a success.
C4_DescendingFirstSuccess ==
    (phase = "dynamic" /\ selPc # "rank") =>
       /\ \A i, j \in 1..Len(ranked) :
             i < j => ranked[i].score >= ranked[j].score
       /\ {ranked[i].name : i \in 1..Len(ranked)}
             = {n \in Range(ProvidersForChain(evmAggregators, req.chainId)) :
                   seen[n] = "healthy"}
       /\ \A i \in 1..Len(ranked) :
             ranked[i].score = CalculateProviderScore(ranked[i].name,
                                  healthCache[ranked[i].name], req)
       /\ Names(tried) \o todo = Names(ranked)
       /\ \A i \in 1..(Len(tried) - 1) : ~tried[i].ok
       /\ (tried # <<>> /\ tried[Len(tried)].ok) =>
             selPc = "done" /\ result = tried[Len(tried)].name
       /\ selPc = "done" => tried # <<>> /\ tried[Len(tried)].ok

\* Three ranked adapters in an order that differs from the registry order;
\* the best one failed, the second one quoted, the third was not called.
C4_Witness ==
    /\ phase = "dynamic"
    /\ selPc = "done"
    /\ Len(ranked) = 3
    /\ Names(ranked) # ProvidersForChain(evmAggregators, req.chainId)
    /\ ranked[1].score > ranked[2].score
    /\ Len(tried) = 2
    /\ result = ranked[2].name

\* C5: getQuote with a preferred type that names a registered EVM adapter
\* (here: one that also supports the chain and is cached as healthy)
\* attempts that adapter exactly once, as the preferred attempt, before any
\* other adapter; a failed preferred attempt falls through to dynamic
\* selection.
C5_PreferredAttemptedOnce ==
    LET registered ==
            /\ req.aggregatorType # "none"
            /\ \E n \in Range(evmAggregators) :
                  ToLowerCase(n) = req.aggregatorType
        adapter == CHOOSE n \in Range(evmAggregators) :
                      ToLowerCase(n) = req.aggregatorType
    IN (/\ registered
        /\ SupportsChain(adapter, req.chainId)
        /\ healthCache[adapter].status = "healthy") =>
          /\ selPc \in {"dynamic", "rank", "try", "done", "error"}
                => attempts # <<>>
          /\ attempts # <<>> =>
                /\ attempts[1].name = adapter
                /\ attempts[1].phase = "preferred"
          /\ Cardinality({i \in 1..Len(attempts) :
                            attempts[i].phase = "preferred"}) <= 1
          /\ (attempts # <<>> /\ ~attempts[1].ok /\ selPc = "error")
                => dynRuns >= 1


\* ------------------------------------------------------------------------
\* Quote fan-out: AggregatorManagerService.getMultipleQuotes,
\* UniversalSwapController.handleEvmAggregators, getCrossChainRoutes and
\* QuoteService.getMultipleQuotes
\* ------------------------------------------------------------------------

Min(a, b) == IF a <= b THEN a ELSE b

\* Quotes an adapter may return: buyAmount in units of 1e6, gas in units of
\* 100000, priceImpact absent, below 1 or above 5.
QuoteProfiles ==
    { [buyAmount |-> 2, gas |-> 2, priceImpact |-> "none"],
      [buyAmount |-> 50, gas |-> 30, priceImpact |-> "high"],
      [buyAmount |-> 8, gas |-> 1, priceImpact |-> "low"] }

\* Route lists a meta aggregator may return: confidence in percent.
RouteLists(p) ==
    { <<>>,
      <<[provider |-> p, confidence |-> 90, totalEstimatedOut |-> 1]>>,
      <<[provider |-> p, confidence |-> 60, totalEstimatedOut |-> 2],
        [provider |-> p, confidence |-> 90, totalEstimatedOut |-> 2]>> }

\* Promise.allSettled slots
Pending == [state |-> "pending", value |-> <<>>]

Rejected == [state |-> "rejected", value |-> <<>>]

Fulfilled(v) == [state |-> "fulfilled", value |-> v]

Outcomes(kind, p) ==
    {Rejected} \cup
    (IF kind \in {"cross", "crossPreferred"}
     THEN {Fulfilled(l) : l \in RouteLists(p)}
     ELSE {Fulfilled(q) : q \in QuoteProfiles})

\* convertToLegacyQuote: provider name to AggregatorType
ConvertToLegacyAggregator(providerName) ==
    CASE ToLowerCase(providerName) = "0x" -> "0x"
      [] ToLowerCase(providerName) = "odos" -> "odos"
      [] OTHER -> "0x"

GatherOrder_ByCompletion(n, completionOrder) == completionOrder

\* Promise.allSettled keeps the input order; forEach((result, index) => ...)
GatherOrder(n, completionOrder) == [i \in 1..n |-> i]

\* Indices of the fulfilled slots, in gather order
FulfilledSlots(slots, completionOrder) ==
    LET IsFulfilled(i) == slots[i].state = "fulfilled"
    IN SelectSeq(GatherOrder(Len(slots), completionOrder), IsFulfilled)

\* getMultipleQuotes: results.push(result.value) for each fulfilled slot
ManagerResults(providers, slots, completionOrder) ==
    LET idx == FulfilledSlots(slots, completionOrder)
    IN [k \in 1..Len(idx) |->
          [aggregator |-> ConvertToLegacyAggregator(providers[idx[k]]),
           source |-> providers[idx[k]],
           quote |-> slots[idx[k]].value]]

\* calculateRouteQualityScore(quote, index, aggregator)
CalculateRouteQualityScore(q, index, aggregator) ==
    LET outputPart == IF q.buyAmount > 0 THEN Min(10, q.buyAmount) ELSE 0
        gasPart == IF q.gas > 0 THEN Min(20, q.gas) ELSE 0
        providerPart == CASE aggregator = "0x" -> 10
                          [] aggregator = "odos" -> 8
                          [] OTHER -> 5
        impactPart == CASE q.priceImpact = "low" -> 5
                        [] q.priceImpact = "high" -> 0 - 10
                        [] OTHER -> 0
    IN Max(0, Min(100, 100 - index * 5 + outputPart - gasPart
                       + providerPart + impactPart))

\* routes.sort((a, b) => b.qualityScore - a.qualityScore): stable,
\* descending
SortByQualityScore(q) ==
    LET n == Len(q)
        Rank(i) == Cardinality({j \in 1..n :
                      \/ q[j].qualityScore > q[i].qualityScore
                      \/ q[j].qualityScore = q[i].qualityScore /\ j < i})
    IN [k \in 1..n |-> q[CHOOSE i \in 1..n : Rank(i) = k - 1]]

\* handleEvmAggregators: quotes.map(...) then the sort by quality score
EvmRoutes(entries) ==
    SortByQualityScore(
        [k \in 1..Len(entries) |->
            [provider |-> entries[k].aggregator,
             source |-> entries[k].source,
             qualityScore |->
                 CalculateRouteQualityScore(entries[k].quote, k - 1,
                                            entries[k].aggregator)]])

\* handleEvmAggregators: the route returned from the catch block
FallbackRoute == [provider |-> "evm-fallback", source |-> "none",
                  qualityScore |-> 0]

RECURSIVE Concat(_)
Concat(lists) ==
    IF lists = <<>> THEN <<>> ELSE Head(lists) \o Concat(Tail(lists))

\* The comparator of getCrossChainRoutes puts a before b: by confidence
\* when the difference exceeds 0.1 (10 percent), else by estimated output.
RouteBefore(a, b) ==
    LET confidenceDiff == b.confidence - a.confidence
    IN IF confidenceDiff > 10 \/ 0 - confidenceDiff > 10
       THEN confidenceDiff < 0
       ELSE b.totalEstimatedOut - a.totalEstimatedOut < 0

\* allRoutes.sort(...): stable
SortRoutes(q) ==
    LET n == Len(q)
        Rank(i) == Cardinality({j \in 1..n :
                      \/ RouteBefore(q[j], q[i])
                      \/ ~RouteBefore(q[i], q[j]) /\ j < i})
    IN [k \in 1..n |-> q[CHOOSE i \in 1..n : Rank(i) = k - 1]]

\* getCrossChainRoutes: allRoutes.push(...result.value) per fulfilled slot,
\* then the sort
CrossChainRoutes(slots, completionOrder) ==
    LET idx == FulfilledSlots(slots, completionOrder)
    IN SortRoutes(Concat([k \in 1..Len(idx) |-> slots[idx[k]].value]))

\* getMultipleQuotes / handleEvmAggregators: getMultipleQuotes throws.  The
\* controller catches the error and returns the single fallback route.
GetMultipleQuotesThrows(kind) ==
    IF kind = "gateway"
    THEN fanPc' = "done" /\ fanResult' = <<FallbackRoute>>
    ELSE fanPc' = "error" /\ fanResult' = <<>>

\* getMultipleQuotes, called directly or from handleEvmAggregators, up to
\* the start of the provider calls.
GetMultipleQuotesStart ==
    /\ fanPc = "idle"
    /\ \E c \in Chains, kind \in {"manager", "gateway"} :
          LET supported == ProvidersForChain(evmAggregators, c)
          IN /\ fanKind' = kind
             /\ fanChain' = c
             /\ fanProviders' = supported
             /\ settled' = [i \in 1..Len(supported) |-> Pending]
             /\ IF supported = <<>>
                THEN GetMultipleQuotesThrows(kind)
                ELSE fanPc' = "calls" /\ fanResult' = <<>>
    /\ UNCHANGED <<completion, fanOk>>
    /\ UNCHANGED <<mgrVars, selVars, execVars, lookups, extVars>>

\* One of the concurrent provider calls is fulfilled or rejected.
ProviderCallSettles ==
    /\ fanPc = "calls"
    /\ \E i \in 1..Len(settled) :
          /\ settled[i] = Pending
          /\ \E outcome \in Outcomes(fanKind, fanProviders[i]) :
                settled' = [settled EXCEPT ![i] = outcome]
          /\ completion' = Append(completion, i)
    /\ UNCHANGED <<fanPc, fanKind, fanChain, fanProviders, fanOk, fanResult>>
    /\ UNCHANGED <<mgrVars, selVars, execVars, lookups, extVars>>

AllSettled == \A i \in 1..Len(settled) : settled[i] # Pending

\* getMultipleQuotes after Promise.allSettled; for the gateway also the
\* mapping and sorting of handleEvmAggregators.
GetMultipleQuotesGather ==
    /\ fanPc = "calls"
    /\ fanKind \in {"manager", "gateway"}
    /\ AllSettled
    /\ LET entries == ManagerResults(fanProviders, settled, completion)
       IN IF entries = <<>>
          THEN GetMultipleQuotesThrows(fanKind)
          ELSE /\ fanPc' = "done"
               /\ fanResult' = IF fanKind = "gateway"
                               THEN EvmRoutes(entries) ELSE entries
    /\ UNCHANGED <<fanKind, fanChain, fanProviders, settled, completion, fanOk>>
    /\ UNCHANGED <<mgrVars, selVars, execVars, lookups, extVars>>

\* getCrossChainRoutes up to the provider calls: getHealthyMetaProviders,
\* then the preferred provider alone or every healthy provider.
GetCrossChainRoutesStart ==
    /\ fanPc = "idle"
    /\ \E probes \in [NeedProbe(healthCache, metaAggregators, now)
                        -> HealthProbes],
          preferredProvider \in {"none"} \cup Range(metaAggregators) :
          LET cache == LookupAll(healthCache, metaAggregators, probes, now)
              IsHealthy(n) == cache[n].status = "healthy"
              providers == SelectSeq(metaAggregators, IsHealthy)
              usePreferred == preferredProvider \in Range(providers)
              called == IF usePreferred THEN <<preferredProvider>>
                        ELSE providers
          IN /\ healthCache' = cache
             /\ fanProviders' = called
             /\ settled' = [i \in 1..Len(called) |-> Pending]
             /\ fanKind' = IF usePreferred THEN "crossPreferred" ELSE "cross"
             /\ fanPc' = IF providers = <<>> THEN "error" ELSE "calls"
    /\ UNCHANGED <<fanChain, completion, fanOk, fanResult>>
    /\ UNCHANGED <<evmAggregators, now, selVars, execVars, lookups, extVars>>

\* getCrossChainRoutes after Promise.allSettled, or after the preferred
\* provider's getRoutes, whose result is returned as it is.
GetCrossChainRoutesGather ==
    /\ fanPc = "calls"
    /\ fanKind \in {"cross", "crossPreferred"}
    /\ AllSettled
    /\ IF fanKind = "cross"
       THEN /\ fanPc' = "done"
            /\ fanResult' = CrossChainRoutes(settled, completion)
       ELSE IF settled[1].state = "fulfilled"
            THEN fanPc' = "done" /\ fanResult' = settled[1].value
            ELSE fanPc' = "error" /\ fanResult' = <<>>
    /\ UNCHANGED <<fanKind, fanChain, fanProviders, settled, completion, fanOk>>
    /\ UNCHANGED <<mgrVars, selVars, execVars, lookups, extVars>>


\* The provider that returns the first quote when `names` are tried in
\* order (tryProvidersInOrder, tryProvidersWithFallback); ok[n]: adapter n
\* answers this request with a quote.
FirstOk(names, ok) ==
    LET idx == {i \in 1..Len(names) : ok[names[i]]}
    IN IF idx = {} THEN "none"
       ELSE names[CHOOSE i \in idx : \A j \in idx : i <= j]

\* getDynamicQuote: the adapter whose quote is returned, "none" on a throw
DynamicQuoteSource(registry, cache, request, ok) ==
    LET supported == ProvidersForChain(registry, request.chainId)
        healthy == FilterHealthyProviders(supported, cache)
    IN IF supported = <<>> THEN "none"
       ELSE IF healthy = <<>> THEN FirstOk(supported, ok)
       ELSE FirstOk(Names(RankProvidersByPerformance(healthy, cache, request)),
                    ok)

\* AggregatorManagerService.getQuote with a preferred type: getEvmQuote
\* (preferred provider among the healthy ones, then dynamic selection) and,
\* when that throws, dynamic selection again.
QuoteSource(registry, cache, request, ok) ==
    LET supported == ProvidersForChain(registry, request.chainId)
        IsHealthy(n) == cache[n].status = "healthy"
        healthy == SelectSeq(supported, IsHealthy)
        preferred == MapAggregatorTypeToProviderName(request.aggregatorType)
    IN IF /\ request.aggregatorType # "none"
          /\ preferred \in Range(healthy)
          /\ ok[preferred]
       THEN preferred
       ELSE DynamicQuoteSource(registry, cache, request, ok)

\* registerInLegacyMap: the adapters of the legacy `aggregators` map, in
\* insertion order
LegacyProviders(registry) ==
    LET IsLegacy(n) == ToLowerCase(n) \in AggregatorTypes
    IN SelectSeq(registry, IsLegacy)

\* getSupportedAggregators(chainId)
SupportedLegacyProviders(registry, chainId) ==
    LET Supports(n) == SupportsChain(n, chainId)
    IN SelectSeq(LegacyProviders(registry), Supports)

\* QuoteService.getMultipleQuotes: one getQuote per supported legacy type,
\* Promise.all, nulls filtered out.  Each entry is labelled with the
\* requested type; `source` is the adapter whose quote it holds.
QuoteServiceResults(registry, cache, chainId, amount, ok) ==
    LET legacy == SupportedLegacyProviders(registry, chainId)
        Source(n) == QuoteSource(registry, cache,
                        [chainId |-> chainId,
                         aggregatorType |-> ToLowerCase(n),
                         approvalStrategy |-> "none",
                         sellAmount |-> amount], ok)
        Quoted(n) == Source(n) # "none"
        quoted == SelectSeq(legacy, Quoted)
    IN [k \in 1..Len(quoted) |->
          [aggregator |-> ToLowerCase(quoted[k]), source |-> Source(quoted[k])]]

\* QuoteService.getMultipleQuotes
QuoteServiceGetMultipleQuotes ==
    /\ fanPc = "idle"
    /\ \E c \in Chains, amount \in SellAmounts,
          ok \in [ProviderNames -> BOOLEAN] :
          LET supported == ProvidersForChain(evmAggregators, c) IN
          \E probes \in [NeedProbe(healthCache, supported, now)
                           -> HealthProbes] :
             LET cache == LookupAll(healthCache, supported, probes, now)
                 results == QuoteServiceResults(evmAggregators, cache, c,
                                                amount, ok)
             IN /\ fanKind' = "legacy"
                /\ fanChain' = c
                /\ fanOk' = ok
                /\ healthCache' =
                      IF SupportedLegacyProviders(evmAggregators, c) = <<>>
                      THEN healthCache ELSE cache
                /\ fanResult' = results
                /\ fanPc' = IF results = <<>> THEN "error" ELSE "done"
    /\ UNCHANGED <<fanProviders, settled, completion>>
    /\ UNCHANGED <<evmAggregators, now, selVars, execVars, lookups, extVars>>

\* routeToProviderManager for the categories without a manager: the switch
\* breaks and the placeholder route is returned.
PlaceholderRoute == [provider |-> "placeholder", source |-> "none",
                     qualityScore |-> 85]

RouteToProviderManagerUnrouted ==
    /\ fanPc = "idle"
    /\ \E category \in {"meta", "native-l1", "solana"} :
          fanKind' = category
    /\ fanResult' = <<PlaceholderRoute>>
    /\ fanPc' = "done"
    /\ UNCHANGED <<fanChain, fanProviders, settled, completion, fanOk>>
    /\ UNCHANGED <<mgrVars, selVars, execVars, lookups, extVars>>

NextFan ==
    \/ RouteToProviderManagerUnrouted
    \/ GetMultipleQuotesStart
    \/ ProviderCallSettles
    \/ GetMultipleQuotesGather
    \/ GetCrossChainRoutesStart
    \/ GetCrossChainRoutesGather
    \/ QuoteServiceGetMultipleQuotes

InitFan ==
    /\ ExecIdle
    /\ SelIdle
    /\ FanIdle
    /\ LookupsIdle
    /\ ExtIdle
    /\ evmAggregators \in RegistryOrders
    /\ healthCache = [n \in CacheKeys |-> NoHealth]
    /\ now = 0

SpecFan == InitFan /\ [][NextFan]_vars


\* Position of provider p in the list of providers the fan-out called.
Position(p) == CHOOSE i \in 1..Len(fanProviders) : fanProviders[i] = p

FulfilledProviders ==
    {fanProviders[i] : i \in {j \in 1..Len(settled) :
                                 settled[j].state = "fulfilled"}}

\* C6: a failing adapter inside a getMultipleQuotes fan-out does not abort
\* or discard the others: the result holds exactly one entry per adapter
\* that succeeded and the call fails only when every adapter fails.  For
\* QuoteService.getMultipleQuotes this is stated for the two built-in
\* adapters, both healthy.
C6_PartialFailureTolerated ==
    /\ (fanKind = "manager" /\ fanPc \in {"done", "error"}
          /\ fanProviders # <<>>) =>
          /\ fanPc = "error" <=> FulfilledProviders = {}
          /\ Len(fanResult) = Cardinality(FulfilledProviders)
          /\ {fanResult[k].source : k \in 1..Len(fanResult)}
                = FulfilledProviders
    /\ (fanKind = "legacy" /\ fanPc \in {"done", "error"}) =>
          LET legacy == SupportedLegacyProviders(evmAggregators, fanChain)
              succeeded == {n \in Range(legacy) : fanOk[n]}
          IN (/\ Len(evmAggregators) = 2
              /\ Len(legacy) = 2
              /\ \A n \in Range(legacy) : healthCache[n].status = "healthy")
             => /\ fanPc = "error" <=> succeeded = {}
                /\ Len(fanResult) = Cardinality(succeeded)

\* C7: getMultipleQuotes sends a quote request to every registered adapter
\* that supports the chain, whatever its health: an adapter that is cached
\* as unhealthy or degraded but answers with a quote has its own quote in
\* the result.
C7_AllSupportedRegardlessOfHealth ==
    /\ (fanKind \in {"manager", "gateway"} /\ fanPc # "idle") =>
          /\ fanProviders = ProvidersForChain(evmAggregators, fanChain)
          /\ (fanPc = "done" /\ fanProviders # <<>>) =>
                \A p \in FulfilledProviders :
                   \E k \in 1..Len(fanResult) : fanResult[k].source = p
    /\ (fanKind = "legacy" /\ fanPc \in {"done", "error"}) =>
          \A n \in Range(SupportedLegacyProviders(evmAggregators, fanChain)) :
             (fanOk[n] /\ healthCache[n].status \in {"unhealthy", "degraded"})
                => \E k \in 1..Len(fanResult) :
                      /\ fanResult[k].source = n
                      /\ fanResult[k].aggregator = ToLowerCase(n)

HealthNames == {"0x"}

\* getProviderHealth up to the first await: read the cache, return the
\* cached entry, or call provider.healthCheck().
LookupStart(c) ==
    /\ lookups[c].state \in {"idle", "done"}
    /\ \E n \in HealthNames :
          LET cached == healthCache[n]
              age == IF cached = NoHealth THEN 0 - 1 ELSE now - cached.lastCheck
          IN lookups' = [lookups EXCEPT ![c] =
                IF CacheFresh(healthCache, n, now)
                THEN [state |-> "done", name |-> n, age |-> age,
                      probed |-> FALSE, read |-> cached, returned |-> cached]
                ELSE [state |-> "probing", name |-> n, age |-> age,
                      probed |-> TRUE, read |-> cached, returned |-> NoHealth]]
    /\ UNCHANGED <<mgrVars, selVars, fanVars, execVars, extVars>>

\* healthCheck() settles: the result (or the failedHealth record of the
\* catch block) is stored in the cache and returned.
ProbeCompletes(c) ==
    /\ lookups[c].state = "probing"
    /\ \E probe \in HealthProbes :
          LET health == Stamp(probe, now)
          IN /\ healthCache' = [healthCache EXCEPT ![lookups[c].name] = health]
             /\ lookups' = [lookups EXCEPT ![c].state = "done",
                                           ![c].returned = health]
    /\ UNCHANGED <<evmAggregators, now, selVars, fanVars, execVars,
                   extVars>>

\* One minute passes.
TickHealth ==
    /\ now < MaxTime
    /\ now' = now + 1
    /\ UNCHANGED <<evmAggregators, healthCache, lookups, selVars, fanVars,
                   execVars, extVars>>

NextHealth ==
    \/ \E c \in Callers : LookupStart(c)
    \/ \E c \in Callers : ProbeCompletes(c)
    \/ TickHealth

InitHealth ==
    /\ ExecIdle
    /\ SelIdle
    /\ FanIdle
    /\ LookupsIdle
    /\ ExtIdle
    /\ evmAggregators = <<"0x", "Odos">>
    /\ healthCache = [n \in CacheKeys |-> NoHealth]
    /\ now = 0

SpecHealth == InitHealth /\ [][NextHealth]_vars


\* C9: at no time are two health probes for the same provider in flight.
C9_NoDuplicateProbes ==
    \A n \in HealthNames :
       Cardinality({c \in Callers : /\ lookups[c].state = "probing"
                                    /\ lookups[c].name = n}) <= 1

\* C10 (as stated): a lookup probes only when the provider has no cached
\* health or the cached entry is older than the timeout; a lookup made
\* within the timeout of the entry's lastCheck returns the cached entry
\* without probing.
C10_ProbeOnlyWhenOlder ==
    \A c \in Callers :
       lookups[c].state # "idle" =>
          /\ lookups[c].probed =>
                lookups[c].age = 0 - 1 \/ lookups[c].age > healthCacheTimeout
          /\ lookups[c].age \in 0..healthCacheTimeout =>
                ~lookups[c].probed /\ lookups[c].returned = lookups[c].read

\* C10 (amended): a lookup probes exactly when the provider has no cached
\* health or the cached entry is at least the timeout old; a lookup made
\* less than the timeout after the entry's lastCheck returns the cached
\* entry without probing, whatever status the entry records.
C10_ProbeIffAtLeastTimeout ==
    \A c \in Callers :
       lookups[c].state # "idle" =>
          /\ lookups[c].probed <=>
                lookups[c].age = 0 - 1 \/ lookups[c].age >= healthCacheTimeout
          /\ ~lookups[c].probed =>
                /\ lookups[c].state = "done"
                /\ lookups[c].read # NoHealth
                /\ lookups[c].returned = lookups[c].read

\* One lookup returned a cached unhealthy entry one minute before the
\* timeout without probing; another one probed at exactly the timeout.
C10_Witness ==
    \E c, e \in Callers :
       /\ lookups[c].state = "done"
       /\ ~lookups[c].probed
       /\ lookups[c].age = healthCacheTimeout - 1
       /\ lookups[c].returned.status = "unhealthy"
       /\ lookups[e].probed
       /\ lookups[e].age = healthCacheTimeout

\* ------------------------------------------------------------------------
\* Provider registration (IAggregatorRegistry) and application start-up
\* ------------------------------------------------------------------------

\* Lines of the manager's logger.
LogLine(level, event, category, names) ==
    [level |-> level, event |-> event, category |-> category,
     names |-> names]

\* registerInLegacyMap(name, provider): the legacy AggregatorType map after
\* the call.
RegisterInLegacyMap(legacy, name, provider) ==
    LET lowerName == ToLowerCase(name)
    IN IF lowerName = "0x" THEN [legacy EXCEPT !["0x"] = provider]
       ELSE IF lowerName = "odos" THEN [legacy EXCEPT !["odos"] = provider]
       ELSE legacy

\* this.evmAggregators.has(name) without the duplicate test.
EvmHas_Never(name) == FALSE

\* this.evmAggregators.has(name)
EvmHas(name) == name \in Range(evmAggregators)

\* registerEvmAggregator(provider)
RegisterEvmAggregator(provider) ==
    LET name == GetProviderName(provider)
    IN IF EvmHas(name)
       THEN /\ regLog' = Append(regLog,
                                LogLine("warn", "duplicate", "evm", <<name>>))
            /\ UNCHANGED <<evmAggregators, boundTo, aggregators>>
       ELSE /\ evmAggregators' = Append(evmAggregators, name)
            /\ boundTo' = [boundTo EXCEPT !["evm"][name] = provider]
            /\ aggregators' = RegisterInLegacyMap(aggregators, name, provider)
            /\ regLog' = Append(regLog,
                                LogLine("log", "registered", "evm", <<name>>))

\* registerMetaAggregator(provider)
RegisterMetaAggregator(provider) ==
    LET name == GetProviderName(provider)
    IN IF name \in Range(metaKeys)
       THEN /\ regLog' = Append(regLog,
                                LogLine("warn", "duplicate", "meta", <<name>>))
            /\ UNCHANGED <<metaKeys, boundTo>>
       ELSE /\ metaKeys' = Append(metaKeys, name)
            /\ boundTo' = [boundTo EXCEPT !["meta"][name] = provider]
            /\ regLog' = Append(regLog,
                                LogLine("log", "registered", "meta", <<name>>))

\* registerProvider(provider, category)
RegisterProvider(provider, category) ==
    CASE category = "evm" ->
             RegisterEvmAggregator(provider) /\ UNCHANGED metaKeys
      [] category = "meta" ->
             RegisterMetaAggregator(provider)
             /\ UNCHANGED <<evmAggregators, aggregators>>
      [] OTHER ->
             /\ regLog' = Append(regLog,
                                 LogLine("error", "unknown", category, <<>>))
             /\ UNCHANGED <<evmAggregators, metaKeys, boundTo, aggregators>>

\* if (this.registrationComplete) return, with the test removed.
AlreadyComplete_Never == FALSE

\* if (this.registrationComplete) return
AlreadyComplete == registrationComplete

\* The lines onRegistrationComplete writes: the summary with the sizes of
\* the maps, then one line per non-empty category with its keys.
Announcement ==
    <<LogLine("log", "complete", "all",
              <<Cardinality({t \in DOMAIN aggregators :
                                aggregators[t] # NoProvider}),
                Len(evmAggregators), Len(metaKeys)>>)>>
    \o (IF Len(evmAggregators) > 0
        THEN <<LogLine("log", "list", "evm", evmAggregators)>> ELSE <<>>)
    \o (IF Len(metaKeys) > 0
        THEN <<LogLine("log", "list", "meta", metaKeys)>> ELSE <<>>)

\* onRegistrationComplete()
OnRegistrationComplete ==
    IF AlreadyComplete
    THEN UNCHANGED <<registrationComplete, regLog>>
    ELSE /\ registrationComplete' = TRUE
         /\ regLog' = regLog \o Announcement

\* ---- start-up of the application (NestFactory.create, app.listen) ------

\* The adapters SwapModule declares as providers and that self-register in
\* onModuleInit.
StartupProviders == {"zeroX", "odos", "lifi", "socket"}

\* The category map an adapter registers in.
CategoryOf(provider) ==
    IF provider \in {"zeroX", "odos", "odosB"} THEN "evm" ELSE "meta"

MaxRequests == 2

\* The module class hook runs with no order relative to the provider hooks.
ProviderHooksDone_Unordered == TRUE

\* SwapModule.onModuleInit runs after the onModuleInit hooks of the
\* providers declared in the module.
ProviderHooksDone == hooksRun = StartupProviders

\* onModuleInit of an adapter: this.registry.registerEvmAggregator(this) or
\* this.registry.registerMetaAggregator(this).
ProviderOnModuleInit(p) ==
    /\ bootPc = "init"
    /\ p \notin hooksRun
    /\ hooksRun' = hooksRun \cup {p}
    /\ IF CategoryOf(p) = "evm"
       THEN /\ RegisterEvmAggregator(p)
            /\ lastCall' = [op |-> "registerEvmAggregator", provider |-> p,
                            category |-> "evm"]
            /\ UNCHANGED metaKeys
       ELSE /\ RegisterMetaAggregator(p)
            /\ lastCall' = [op |-> "registerMetaAggregator", provider |-> p,
                            category |-> "meta"]
            /\ UNCHANGED <<evmAggregators, aggregators>>
    /\ UNCHANGED <<bootPc, registrationComplete, barrierCalls, served,
                   healthCache, now, nonBootVars>>

\* SwapModule.onModuleInit: this.aggregatorManager.onRegistrationComplete()
SwapModuleOnModuleInit ==
    /\ bootPc = "init"
    /\ ProviderHooksDone
    /\ OnRegistrationComplete
    /\ barrierCalls' = barrierCalls + 1
    /\ lastCall' = [op |-> "onRegistrationComplete", provider |-> NoProvider,
                    category |-> "none"]
    /\ bootPc' = "ready"
    /\ UNCHANGED <<hooksRun, metaKeys, boundTo, aggregators, served, mgrVars,
                   nonBootVars>>

\* await app.listen(port)
Listen ==
    /\ bootPc = "ready"
    /\ bootPc' = "listening"
    /\ UNCHANGED <<hooksRun, metaKeys, boundTo, aggregators,
                   registrationComplete, regLog, barrierCalls, served,
                   lastCall, mgrVars, nonBootVars>>

\* A request is served: the handler reads the registries.
ServeRequest ==
    /\ bootPc = "listening"
    /\ Len(served) < MaxRequests
    /\ served' = Append(served, [evm |-> Range(evmAggregators),
                                 meta |-> Range(metaKeys)])
    /\ UNCHANGED <<bootPc, hooksRun, metaKeys, boundTo, aggregators,
                   registrationComplete, regLog, barrierCalls, lastCall,
                   mgrVars, nonBootVars>>

NextBoot ==
    \/ \E p \in StartupProviders : ProviderOnModuleInit(p)
    \/ SwapModuleOnModuleInit
    \/ Listen
    \/ ServeRequest

InitBoot ==
    /\ ExecIdle
    /\ MgrIdle
    /\ SelIdle
    /\ FanIdle
    /\ LookupsIdle
    /\ HttpIdle
    /\ RateIdle
    /\ CallIdle
    /\ hooksRun = {}
    /\ metaKeys = <<>>
    /\ boundTo = [c \in Categories |-> [n \in RegistryNames |-> NoProvider]]
    /\ aggregators = [t \in {"0x", "odos"} |-> NoProvider]
    /\ registrationComplete = FALSE
    /\ regLog = <<>>
    /\ barrierCalls = 0
    /\ served = <<>>
    /\ lastCall = NoCall
    /\ bootPc = "init"

SpecBoot == InitBoot /\ [][NextBoot]_vars

\* C11: every provider's self-registration is complete before
\* onRegistrationComplete() is invoked and before the first request is
\* served; no request is served from a registry that misses a provider
\* registering during start-up; the host invokes the barrier exactly once.
C11_RegistrationBeforeService ==
    /\ barrierCalls <= 1
    /\ barrierCalls > 0 =>
          /\ hooksRun = StartupProviders
          /\ \A p \in StartupProviders :
                boundTo[CategoryOf(p)][GetProviderName(p)] = p
    /\ bootPc \in {"ready", "listening"} =>
          barrierCalls = 1 /\ registrationComplete
    /\ \A i \in 1..Len(served) :
          \A p \in StartupProviders :
             GetProviderName(p) \in served[i][CategoryOf(p)]

C11_Witness ==
    /\ Len(served) >= 1
    /\ barrierCalls = 1
    /\ Len(evmAggregators) = 2
    /\ Len(metaKeys) = 2

\* ---- calls of the registry interface in any order -----------------------

\* Bounds on the number of registration calls and of barrier calls.
MaxRegistrations == 3

MaxBarrierCalls == 2

Registrations ==
    Cardinality({i \in 1..Len(regLog) :
                    regLog[i].event \in {"registered", "duplicate",
                                         "unknown"}})

\* registry.registerEvmAggregator(provider)
RegisterEvmAggregatorCall(provider) ==
    /\ Registrations < MaxRegistrations
    /\ RegisterEvmAggregator(provider)
    /\ lastCall' = [op |-> "registerEvmAggregator", provider |-> provider,
                    category |-> "evm"]
    /\ UNCHANGED <<bootPc, hooksRun, metaKeys, registrationComplete,
                   barrierCalls, served, healthCache, now, nonBootVars>>

\* registry.registerMetaAggregator(provider)
RegisterMetaAggregatorCall(provider) ==
    /\ Registrations < MaxRegistrations
    /\ RegisterMetaAggregator(provider)
    /\ lastCall' = [op |-> "registerMetaAggregator", provider |-> provider,
                    category |-> "meta"]
    /\ UNCHANGED <<bootPc, hooksRun, evmAggregators, aggregators,
                   registrationComplete, barrierCalls, served, healthCache,
                   now, nonBootVars>>

\* registry.registerProvider(provider, category)
RegisterProviderCall(provider, category) ==
    /\ Registrations < MaxRegistrations
    /\ RegisterProvider(provider, category)
    /\ lastCall' = [op |-> "registerProvider", provider |-> provider,
                    category |-> category]
    /\ UNCHANGED <<bootPc, hooksRun, registrationComplete, barrierCalls,
                   served, healthCache, now, nonBootVars>>

\* aggregatorManager.onRegistrationComplete()
OnRegistrationCompleteCall ==
    /\ barrierCalls < MaxBarrierCalls
    /\ OnRegistrationComplete
    /\ barrierCalls' = barrierCalls + 1
    /\ lastCall' = [op |-> "onRegistrationComplete", provider |-> NoProvider,
                    category |-> "none"]
    /\ UNCHANGED <<bootPc, hooksRun, metaKeys, boundTo, aggregators, served,
                   mgrVars, nonBootVars>>

NextRegistry ==
    \/ \E p \in Instances : RegisterEvmAggregatorCall(p)
    \/ \E p \in Instances : RegisterMetaAggregatorCall(p)
    \/ \E p \in Instances, c \in Categories \cup {"unknown"} :
          RegisterProviderCall(p, c)
    \/ OnRegistrationCompleteCall

InitRegistry ==
    /\ ExecIdle
    /\ MgrIdle
    /\ SelIdle
    /\ FanIdle
    /\ LookupsIdle
    /\ ExtIdle

SpecRegistry == InitRegistry /\ [][NextRegistry]_vars

\* The call of the latest step registers `name` in category `c`.
Registers(c, name) ==
    /\ lastCall'.op \in {"registerEvmAggregator", "registerMetaAggregator",
                         "registerProvider"}
    /\ lastCall'.category = c
    /\ GetProviderName(lastCall'.provider) = name

\* C12: registering a provider whose name is already registered in the
\* same category leaves the registry unchanged: the adapter first bound to
\* the name stays bound, no category map and no legacy entry is added or
\* replaced, and only a warning is written.
C12_DuplicateRegistrationIgnored ==
    [][\A c \in Categories, name \in RegistryNames :
          (Registers(c, name) /\ boundTo[c][name] # NoProvider) =>
             /\ boundTo' = boundTo
             /\ evmAggregators' = evmAggregators
             /\ metaKeys' = metaKeys
             /\ aggregators' = aggregators
             /\ registrationComplete' = registrationComplete
             /\ regLog' = Append(regLog,
                                 LogLine("warn", "duplicate", c, <<name>>))
      ]_vars

\* A second instance named 'Odos' was offered after the first one was
\* registered, and the first one is still bound in both maps.
C12_Witness ==
    /\ lastCall.provider = "odosB"
    /\ lastCall.category = "evm"
    /\ boundTo["evm"]["Odos"] = "odos"
    /\ aggregators["odos"] = "odos"
    /\ regLog[Len(regLog)].level = "warn"

\* The latest step called onRegistrationComplete().
BarrierStep == barrierCalls' = barrierCalls + 1

\* C13: the registration-complete latch is set once and never reset: the
\* first onRegistrationComplete() sets it and announces the registered
\* providers, every later call changes nothing and announces nothing, and
\* a registration arriving after the latch is still added to its category
\* map and stays usable.
C13_LatchSetOnce ==
    [][/\ registrationComplete => registrationComplete'
       /\ (BarrierStep /\ ~ registrationComplete) =>
             /\ registrationComplete'
             /\ regLog' = regLog \o Announcement
       /\ (BarrierStep /\ registrationComplete) =>
             /\ regLog' = regLog
             /\ UNCHANGED <<evmAggregators, metaKeys, boundTo, aggregators,
                            registrationComplete>>
       /\ \A c \in Categories, name \in RegistryNames :
             (Registers(c, name) /\ registrationComplete
                 /\ boundTo[c][name] = NoProvider) =>
                /\ boundTo'[c][name] = lastCall'.provider
                /\ name \in (IF c = "evm" THEN Range(evmAggregators')
                                         ELSE Range(metaKeys'))
                /\ regLog' = Append(regLog,
                                    LogLine("log", "registered", c, <<name>>))
       /\ \A c \in Categories, name \in RegistryNames :
             boundTo[c][name] # NoProvider => boundTo'[c][name] # NoProvider
      ]_vars

\* The barrier was called twice, its announcement was written once, and an
\* adapter registered after the latch is bound in its map.
C13_Witness ==
    /\ barrierCalls = 2
    /\ registrationComplete
    /\ Cardinality({i \in 1..Len(regLog) : regLog[i].event = "complete"}) = 1
    /\ \E i, j \in 1..Len(regLog) :
          /\ i < j
          /\ regLog[i].event = "complete"
          /\ regLog[j].event = "registered"
          /\ regLog[j].names[1] \in Range(evmAggregators)

\* ------------------------------------------------------------------------
\* One HTTP request: LoggingInterceptor around a controller handler
\* ------------------------------------------------------------------------

PrivateKeys == {"key1", "key2"}

TokenAddresses == {"tokenA", "tokenB"}

Amounts == {"0", "1000"}

\* Request bodies: ApprovalRequestDto of POST approval/execute and the empty
\* body of GET supported-chains.
HttpRequests ==
    [endpoint : {"approval/execute"}, ip : ClientIps,
     privateKey : PrivateKeys, tokenAddress : TokenAddresses,
     amount : Amounts]
    \cup [endpoint : {"supported-chains"}, ip : ClientIps,
          privateKey : {"none"}, tokenAddress : {"none"}, amount : {"none"}]

\* Outcomes of approvalService.executeApproval: a transaction hash, or an
\* error whose message the controller matches.
ApprovalOutcomes ==
    {"txHash", "Insufficient funds", "Invalid private key format",
     "network", "other"}

\* A log line: its level, the class that wrote it, and the values that
\* appear in its text.
Line(level, by, values) == [level |-> level, by |-> by, values |-> values]

\* Object.keys(body).length > 0
HasBody(request) == request.endpoint = "approval/execute"

\* safeStringify(body): JSON.stringify of the whole body; the values that
\* appear in the string.
SafeStringify(request) ==
    IF HasBody(request)
    THEN {request.tokenAddress, request.amount, request.privateKey}
    ELSE {}

\* The message of the exception the controller throws for an error message.
TranslateApprovalError(message) ==
    CASE message = "Insufficient funds" -> "InsufficientFunds"
      [] message = "Invalid private key format" -> "InvalidPrivateKey"
      [] message = "network" -> "NetworkError"
      [] OTHER -> "ApprovalExecutionFailed"

\* LoggingInterceptor.intercept up to next.handle(): the 'Incoming Request'
\* line and, for a non-empty body, the 'Request Body' line.
Intercept(request) ==
    /\ httpPc = "idle"
    /\ httpReq' = request
    /\ httpLog' =
          <<Line("log", "LoggingInterceptor", {request.endpoint, request.ip})>>
          \o (IF HasBody(request)
              THEN <<Line("debug", "LoggingInterceptor",
                          SafeStringify(request))>>
              ELSE <<>>)
    /\ httpPc' = "handler"
    /\ UNCHANGED <<httpOutcome, nonHttpVars>>

\* UniversalSwapController.executeApproval with
\* ApprovalService.executeApproval: the controller logs the token, the
\* service logs the transaction hash or the error, the controller logs the
\* error and throws the translated exception.
ExecuteApprovalHandler(outcome) ==
    /\ httpPc = "handler"
    /\ httpReq.endpoint = "approval/execute"
    /\ httpOutcome' = IF outcome = "txHash" THEN outcome
                      ELSE TranslateApprovalError(outcome)
    /\ httpLog' =
          httpLog
          \o <<Line("log", "UniversalSwapController",
                    {httpReq.tokenAddress})>>
          \o (IF outcome = "txHash"
              THEN <<Line("log", "ApprovalService", {"txHash"})>>
              ELSE <<Line("error", "ApprovalService", {outcome}),
                     Line("error", "UniversalSwapController", {outcome})>>)
    /\ httpPc' = IF outcome = "txHash" THEN "next" ELSE "error"
    /\ UNCHANGED <<httpReq, nonHttpVars>>

\* UniversalSwapController.getSupportedChains: no body, no secret.
GetSupportedChainsHandler ==
    /\ httpPc = "handler"
    /\ httpReq.endpoint = "supported-chains"
    /\ httpOutcome' = "chains"
    /\ httpPc' = "next"
    /\ UNCHANGED <<httpReq, httpLog, nonHttpVars>>

\* tap next: the 'Outgoing Response' and 'Response Data' lines.
TapNext ==
    /\ httpPc = "next"
    /\ httpLog' =
          httpLog
          \o <<Line("log", "LoggingInterceptor", {httpReq.endpoint}),
               Line("debug", "LoggingInterceptor",
                    IF httpOutcome = "txHash"
                    THEN {"txHash", httpReq.tokenAddress, httpReq.amount}
                    ELSE {httpOutcome})>>
    /\ httpPc' = "done"
    /\ UNCHANGED <<httpReq, httpOutcome, nonHttpVars>>

\* tap error: the 'Request Error' line with the thrown exception's message.
TapError ==
    /\ httpPc = "error"
    /\ httpLog' = Append(httpLog,
                         Line("error", "LoggingInterceptor",
                              {httpReq.endpoint, httpOutcome}))
    /\ httpPc' = "done"
    /\ UNCHANGED <<httpReq, httpOutcome, nonHttpVars>>

NextLog ==
    \/ \E request \in HttpRequests : Intercept(request)
    \/ \E outcome \in ApprovalOutcomes : ExecuteApprovalHandler(outcome)
    \/ GetSupportedChainsHandler
    \/ TapNext
    \/ TapError

InitLog ==
    /\ ExecIdle
    /\ MgrIdle
    /\ SelIdle
    /\ FanIdle
    /\ LookupsIdle
    /\ ExtIdle

SpecLog == InitLog /\ [][NextLog]_vars

\* C14: the private key supplied with a request never appears in a log
\* line or error message written while the request is handled.
C14_SecretNeverLogged ==
    \A i \in 1..Len(httpLog) : httpReq.privateKey \notin httpLog[i].values

\* ------------------------------------------------------------------------
\* Rate-limit guard (RateLimitGuard); the clock counts seconds
\* ------------------------------------------------------------------------

\* private readonly maxRequests = 100
maxRequests == 100

\* private readonly windowMs = 60 * 1000, in seconds
windowMs == 60

\* Instants (seconds) at which requests arrive and the cleanup timer fires.
RateInstants == {0, 59, 60, 61, 121}

\* Number of requests one client sends at one instant.
BurstSizes == {1, 99, 100}

MaxBursts == 3

\* canActivate for one request of a client whose map entry is clientData:
\* the entry afterwards, whether the request is admitted, and retryAfter
\* of the 429 response otherwise.
CanActivate(clientData, t) ==
    IF clientData = NoEntry \/ t > clientData.resetTime
    THEN [entry |-> [count |-> 1, resetTime |-> t + windowMs],
          admitted |-> TRUE, retryAfter |-> 0]
    ELSE IF clientData.count >= maxRequests
    THEN [entry |-> clientData, admitted |-> FALSE,
          retryAfter |-> clientData.resetTime - t]
    ELSE [entry |-> [clientData EXCEPT !.count = @ + 1],
          admitted |-> TRUE, retryAfter |-> 0]

\* The outcome of a run of calls followed by the outcome of the run that
\* continues from its entry.
ThenCalls(first, rest) ==
    [entry |-> rest.entry,
     admitted |-> first.admitted + rest.admitted,
     retryAfter |-> Max(first.retryAfter, rest.retryAfter)]

\* n >= 1 requests of one client at instant t, passed through canActivate
\* one after the other (the first half, then the second half from the
\* entry the first half left): the entry afterwards, how many were
\* admitted, and the largest retryAfter among the rejections.
RECURSIVE CanActivateTimes(_, _, _)
CanActivateTimes(clientData, t, n) ==
    IF n = 1
    THEN LET one == CanActivate(clientData, t)
         IN [entry |-> one.entry,
             admitted |-> IF one.admitted THEN 1 ELSE 0,
             retryAfter |-> one.retryAfter]
    ELSE CHOOSE r \in UNION {
             {ThenCalls(first, rest) :
                 rest \in {CanActivateTimes(first.entry, t,
                                            n - (n \div 2))}} :
             first \in {CanActivateTimes(clientData, t, n \div 2)}} : TRUE

\* A client sends n requests at the current instant.
Requests(ip, n) ==
    /\ Len(history) < MaxBursts
    /\ LET r == CanActivateTimes(requests[ip], rateNow, n)
       IN /\ requests' = [requests EXCEPT ![ip] = r.entry]
          /\ history' = Append(history,
                               [ip |-> ip, at |-> rateNow, issued |-> n,
                                admitted |-> r.admitted,
                                retryAfter |-> r.retryAfter])
    /\ UNCHANGED <<rateNow, nonRateVars>>

\* Time passes up to a later instant.
AdvanceClock(t) ==
    /\ t > rateNow
    /\ rateNow' = t
    /\ UNCHANGED <<requests, history, nonRateVars>>

\* The setInterval callback of onModuleInit: delete the expired entries.
\* (A firing that finds no expired entry changes nothing.)
CleanupExpired ==
    /\ \E ip \in ClientIps :
          requests[ip] # NoEntry /\ rateNow > requests[ip].resetTime
    /\ requests' = [ip \in ClientIps |->
                       IF rateNow > requests[ip].resetTime
                       THEN NoEntry ELSE requests[ip]]
    /\ UNCHANGED <<rateNow, history, nonRateVars>>

NextRate ==
    \/ \E ip \in ClientIps, n \in BurstSizes : Requests(ip, n)
    \/ \E t \in RateInstants : AdvanceClock(t)
    \/ CleanupExpired

InitRate ==
    /\ ExecIdle
    /\ MgrIdle
    /\ SelIdle
    /\ FanIdle
    /\ LookupsIdle
    /\ ExtIdle

SpecRate == InitRate /\ [][NextRate]_vars

\* Requests of a client admitted by the entries i..j of the history.
RECURSIVE AdmittedBetween(_, _, _)
AdmittedBetween(ip, i, j) ==
    IF i > j THEN 0
    ELSE (IF history[i].ip = ip THEN history[i].admitted ELSE 0)
         + AdmittedBetween(ip, i + 1, j)

\* C15: for each client IP at most 100 requests are admitted in any
\* sliding 60-second window (the 101st request of an IP within 60 seconds
\* is rejected), and a rejection carries retryAfter <= 60.
C15_SlidingWindowLimit ==
    /\ \A i, j \in 1..Len(history) :
          (i <= j /\ history[j].at - history[i].at < windowMs) =>
             AdmittedBetween(history[i].ip, i, j) <= maxRequests
    /\ \A i \in 1..Len(history) : history[i].retryAfter <= windowMs

\* ------------------------------------------------------------------------
\* Best-quote selection (QuoteService.getBestQuote,
\* AggregatorManagerService.getBestQuote)
\* ------------------------------------------------------------------------

\* buyAmount strings of the collected quotes.  [big |-> FALSE, low |-> n] is
\* the decimal string of n; [big |-> TRUE, low |-> n] is the decimal string
\* of 2^53 + n, with n < 4.
BuyAmounts ==
    [big : {FALSE}, low : {5, 7}] \cup [big : {TRUE}, low : 0..3]

\* BigInt(a) > BigInt(b)
BigIntGreater(a, b) ==
    \/ a.big /\ ~ b.big
    \/ a.big = b.big /\ a.low > b.low

\* parseFloat(a): the nearest IEEE-754 double, ties to the even mantissa.
\* Integers below 2^53 are exact; from 2^53 to 2^54 the doubles are the even
\* integers, so 2^53 + 1 becomes 2^53 and 2^53 + 3 becomes 2^53 + 4.
ParseFloat(a) ==
    IF ~ a.big THEN a
    ELSE [big |-> TRUE,
          low |-> CASE a.low = 1 -> 0
                    [] a.low = 3 -> 4
                    [] OTHER -> a.low]

\* parseFloat(a) > parseFloat(b)
ParseFloatGreater(a, b) == BigIntGreater(ParseFloat(a), ParseFloat(b))

\* The lists getMultipleQuotes may return: one to three entries.
MaxQuotes == 3

LegacyTypeAt(i) == IF i = 2 THEN "odos" ELSE "0x"

QuoteLists ==
    UNION {[1..n -> BuyAmounts] : n \in 1..MaxQuotes}

CollectedQuotes(amounts) ==
    [i \in 1..Len(amounts) |->
        [aggregator |-> LegacyTypeAt(i), index |-> i,
         buyAmount |-> amounts[i]]]

\* QuoteService.getBestQuote: quotes.reduce((best, current) =>
\*   BigInt(current.quote.buyAmount) > BigInt(best.quote.buyAmount)
\*     ? current : best)
RECURSIVE ReduceBestBigInt(_, _, _)
ReduceBestBigInt(quotes, best, i) ==
    IF i > Len(quotes) THEN best
    ELSE ReduceBestBigInt(quotes,
                          IF BigIntGreater(quotes[i].buyAmount, best.buyAmount)
                          THEN quotes[i] ELSE best,
                          i + 1)

\* AggregatorManagerService.getBestQuote: the same reduce over
\* parseFloat(buyAmount).
RECURSIVE ReduceBestParseFloat(_, _, _)
ReduceBestParseFloat(quotes, best, i) ==
    IF i > Len(quotes) THEN best
    ELSE ReduceBestParseFloat(quotes,
                              IF ParseFloatGreater(quotes[i].buyAmount,
                                                   best.buyAmount)
                              THEN quotes[i] ELSE best,
                              i + 1)

QuoteServiceGetBestQuote ==
    /\ callPc = "quotes"
    /\ callResult' = ReduceBestBigInt(callArgs, callArgs[1], 2)
    /\ callPc' = "QuoteService.getBestQuote"
    /\ UNCHANGED <<callArgs, nonCallVars>>

ManagerGetBestQuote ==
    /\ callPc = "quotes"
    /\ callResult' = ReduceBestParseFloat(callArgs, callArgs[1], 2)
    /\ callPc' = "AggregatorManagerService.getBestQuote"
    /\ UNCHANGED <<callArgs, nonCallVars>>

NextBest ==
    \/ QuoteServiceGetBestQuote
    \/ ManagerGetBestQuote

InitBest ==
    /\ ExecIdle
    /\ MgrIdle
    /\ SelIdle
    /\ FanIdle
    /\ LookupsIdle
    /\ BootIdle
    /\ HttpIdle
    /\ RateIdle
    /\ callPc = "quotes"
    /\ callArgs \in {CollectedQuotes(a) : a \in QuoteLists}
    /\ callResult = <<>>

SpecBest == InitBest /\ [][NextBest]_vars

\* C16: the selected best quote is an entry whose buyAmount is maximal
\* among the collected quotes, compared as unbounded integers.
C16_BestIsMaximal ==
    callPc \in {"QuoteService.getBestQuote",
                "AggregatorManagerService.getBestQuote"} =>
       /\ \E i \in 1..Len(callArgs) : callResult = callArgs[i]
       /\ \A i \in 1..Len(callArgs) :
             ~ BigIntGreater(callArgs[i].buyAmount, callResult.buyAmount)

\* ------------------------------------------------------------------------
\* Quote comparison (QuoteService.compareQuotes,
\* AggregatorManagerService.compareQuotes)
\* ------------------------------------------------------------------------

\* buyAmount values of the compared quotes (below 2^53, where BigInt and
\* parseFloat agree).
CompareAmounts == {0, 3, 5, 1000}

CompareLists == UNION {[1..n -> CompareAmounts] : n \in 1..MaxQuotes}

\* The strings priceDifference can be: the literal '0', x.toFixed(2) of a
\* number given in hundredths, the same followed by '%', and toFixed(2) of
\* a division by zero followed by '%'.
Literal0 == [text |-> "0", hundredths |-> 0]

ToFixed2(hundredths) == [text |-> "toFixed(2)", hundredths |-> hundredths]

ToFixed2Percent(hundredths) ==
    [text |-> "toFixed(2)%", hundredths |-> hundredths]

NotANumberPercent == [text |-> "NaN% or Infinity%", hundredths |-> 0]

\* [...quotes].sort((a, b) => b > a ? 1 : b < a ? -1 : 0): stable, by
\* BigInt(buyAmount) descending.
RECURSIVE InsertDescending(_, _)
InsertDescending(x, sorted) ==
    IF sorted = <<>> THEN <<x>>
    ELSE IF x.buyAmount > Head(sorted).buyAmount THEN <<x>> \o sorted
    ELSE <<Head(sorted)>> \o InsertDescending(x, Tail(sorted))

RECURSIVE SortDescending(_)
SortDescending(quotes) ==
    IF quotes = <<>> THEN <<>>
    ELSE InsertDescending(quotes[Len(quotes)],
                          SortDescending(SubSeq(quotes, 1, Len(quotes) - 1)))

\* QuoteService.compareQuotes
QuoteServiceCompare(quotes) ==
    IF Len(quotes) = 1
    THEN [bestAggregator |-> quotes[1].aggregator,
          priceDifference |-> Literal0]
    ELSE LET sortedQuotes == SortDescending(quotes)
             bestBuyAmount == sortedQuotes[1].buyAmount
             worstBuyAmount == sortedQuotes[Len(sortedQuotes)].buyAmount
             difference == bestBuyAmount - worstBuyAmount
         IN [bestAggregator |-> sortedQuotes[1].aggregator,
             priceDifference |->
                IF worstBuyAmount > 0
                THEN ToFixed2((difference * 10000) \div worstBuyAmount)
                ELSE Literal0]

\* quotes.reduce keeping the first entry with the largest (smallest)
\* parseFloat(buyAmount).
RECURSIVE ReduceWorst(_, _, _)
ReduceWorst(quotes, worst, i) ==
    IF i > Len(quotes) THEN worst
    ELSE ReduceWorst(quotes,
                     IF quotes[i].buyAmount < worst.buyAmount
                     THEN quotes[i] ELSE worst,
                     i + 1)

RECURSIVE ReduceBest(_, _, _)
ReduceBest(quotes, best, i) ==
    IF i > Len(quotes) THEN best
    ELSE ReduceBest(quotes,
                    IF quotes[i].buyAmount > best.buyAmount
                    THEN quotes[i] ELSE best,
                    i + 1)

\* x.toFixed(2) for x = 100 * difference / worst: the nearest hundredth.
RoundedHundredths(difference, worst) ==
    (2 * difference * 10000 + worst) \div (2 * worst)

\* AggregatorManagerService.compareQuotes
ManagerCompare(quotes) ==
    LET bestQuote == ReduceBest(quotes, quotes[1], 2)
        worstQuote == ReduceWorst(quotes, quotes[1], 2)
        bestAmount == bestQuote.buyAmount
        worstAmount == worstQuote.buyAmount
    IN [bestAggregator |-> bestQuote.aggregator,
        priceDifference |->
           IF worstAmount = 0 THEN NotANumberPercent
           ELSE ToFixed2Percent(RoundedHundredths(bestAmount - worstAmount,
                                                  worstAmount))]

QuoteServiceCompareQuotes ==
    /\ callPc = "quotes"
    /\ callResult' = QuoteServiceCompare(callArgs)
    /\ callPc' = "QuoteService.compareQuotes"
    /\ UNCHANGED <<callArgs, nonCallVars>>

ManagerCompareQuotes ==
    /\ callPc = "quotes"
    /\ callResult' = ManagerCompare(callArgs)
    /\ callPc' = "AggregatorManagerService.compareQuotes"
    /\ UNCHANGED <<callArgs, nonCallVars>>

NextCompare ==
    \/ QuoteServiceCompareQuotes
    \/ ManagerCompareQuotes

InitCompare ==
    /\ ExecIdle
    /\ MgrIdle
    /\ SelIdle
    /\ FanIdle
    /\ LookupsIdle
    /\ BootIdle
    /\ HttpIdle
    /\ RateIdle
    /\ callPc = "quotes"
    /\ callArgs \in {CollectedQuotes(a) : a \in CompareLists}
    /\ callResult = <<>>

SpecCompare == InitCompare /\ [][NextCompare]_vars

\* The largest and the smallest collected buyAmount.
MaxBuyAmount ==
    CHOOSE m \in {callArgs[i].buyAmount : i \in 1..Len(callArgs)} :
        \A i \in 1..Len(callArgs) : callArgs[i].buyAmount <= m

MinBuyAmount ==
    CHOOSE m \in {callArgs[i].buyAmount : i \in 1..Len(callArgs)} :
        \A i \in 1..Len(callArgs) : callArgs[i].buyAmount >= m

\* C17: priceDifference is (best - worst) / worst * 100 with exactly two
\* decimals (cut or rounded to the hundredth), best and worst being the
\* largest and smallest collected buyAmount, and it is the string "0" when
\* one quote was collected.
C17_PriceDifference ==
    callPc \in {"QuoteService.compareQuotes",
                "AggregatorManagerService.compareQuotes"} =>
       IF Len(callArgs) = 1
       THEN callResult.priceDifference = Literal0
       ELSE MinBuyAmount > 0 =>
               /\ callResult.priceDifference.text = "toFixed(2)"
               /\ callResult.priceDifference.hundredths \in
                     {((MaxBuyAmount - MinBuyAmount) * 10000)
                          \div MinBuyAmount,
                      RoundedHundredths(MaxBuyAmount - MinBuyAmount,
                                        MinBuyAmount)}

\* ------------------------------------------------------------------------
\* minBuyAmount of a quote (OdosService.parseSwapQuote,
\* ZeroXService.validateQuoteResponse and parseQuoteResponse)
\* ------------------------------------------------------------------------

\* Token amounts: [hi |-> h, lo |-> n] is the integer h * 2^52 + n, with
\* h <= 2 and n < 2^52.
Wei(hi, lo) == [hi |-> hi, lo |-> lo]

WeiGreater(a, b) == a.hi > b.hi \/ (a.hi = b.hi /\ a.lo > b.lo)

\* Amounts below 2^53 and amounts 2^53 + n.
SmallOutputs == {Wei(0, n) : n \in {0, 1, 199, 1000}}

LargeOutputs == {Wei(2, n) : n \in 0..3}

\* slippagePercentage values that validateSlippage accepts
\* (0 <= slippage <= 50).
Slippages == {"0", "0.5", "1", "50", "1e-15"}

\* 1 - (slippagePercentage || 0.5) / 100 as a double: 0.995 for 0 and
\* 0.5, 0.99, 0.5, and 1 for 1e-15 because 1 - 1e-17 rounds to 1.
SlippageMultiplier(slippage) ==
    CASE slippage \in {"0", "0.5"} -> [num |-> 995, den |-> 1000]
      [] slippage = "1" -> [num |-> 99, den |-> 100]
      [] slippage = "50" -> [num |-> 1, den |-> 2]
      [] OTHER -> [num |-> 1, den |-> 1]

\* Number(output): exact below 2^53; from 2^53 on the nearest even
\* integer, ties to the even mantissa.
NumberOf(a) ==
    IF a.hi < 2 THEN a
    ELSE Wei(2, CASE a.lo = 1 -> 0
                  [] a.lo = 3 -> 4
                  [] OTHER -> a.lo)

\* Math.floor(x * multiplier).  For x >= 2^53 the multipliers 1 and 1/2
\* are taken, whose products are exact.
FloorTimes(x, m) ==
    IF m.num = m.den THEN x
    ELSE IF x.hi = 2 THEN Wei(1, x.lo \div 2)
    ELSE Wei(0, (x.lo * m.num) \div m.den)

\* OdosService.calculateMinOutput
CalculateMinOutput(outputAmount, slippage) ==
    FloorTimes(NumberOf(outputAmount), SlippageMultiplier(slippage))

\* Adapter inputs: the Odos outAmounts[0] with the request's slippage, and
\* the 0x response's buyAmount with its minBuyAmount (or none).
Absent == Wei(0 - 1, 0)

MinOutputInputs ==
    {in \in [outputAmount : SmallOutputs \cup LargeOutputs,
             slippage : Slippages,
             minBuyAmount : SmallOutputs \cup LargeOutputs \cup {Absent}] :
        in.outputAmount \in LargeOutputs =>
           in.slippage \in {"50", "1e-15"}}

\* OdosService.parseSwapQuote
OdosParseSwapQuote ==
    /\ callPc = "response"
    /\ callResult' = [buyAmount |-> callArgs.outputAmount,
                      minBuyAmount |-> CalculateMinOutput(
                                           callArgs.outputAmount,
                                           callArgs.slippage)]
    /\ callPc' = "OdosService.parseSwapQuote"
    /\ UNCHANGED <<callArgs, nonCallVars>>

\* ZeroXService: validateQuoteResponse throws when minBuyAmount > buyAmount,
\* parseQuoteResponse copies response.minBuyAmount || response.buyAmount.
ZeroXParseQuoteResponse ==
    /\ callPc = "response"
    /\ LET minBuyAmount == IF callArgs.minBuyAmount = Absent
                           THEN callArgs.outputAmount
                           ELSE callArgs.minBuyAmount
       IN IF WeiGreater(minBuyAmount, callArgs.outputAmount)
          THEN /\ callResult' = <<>>
               /\ callPc' = "ZeroXService.validateQuoteResponse throws"
          ELSE /\ callResult' = [buyAmount |-> callArgs.outputAmount,
                                 minBuyAmount |-> minBuyAmount]
               /\ callPc' = "ZeroXService.parseQuoteResponse"
    /\ UNCHANGED <<callArgs, nonCallVars>>

NextMinOutput ==
    \/ OdosParseSwapQuote
    \/ ZeroXParseQuoteResponse

InitMinOutput ==
    /\ ExecIdle
    /\ MgrIdle
    /\ SelIdle
    /\ FanIdle
    /\ LookupsIdle
    /\ BootIdle
    /\ HttpIdle
    /\ RateIdle
    /\ callPc = "response"
    /\ callArgs \in MinOutputInputs
    /\ callResult = <<>>

SpecMinOutput == InitMinOutput /\ [][NextMinOutput]_vars

\* C18: every quote an adapter returns has minBuyAmount <= buyAmount as
\* unbounded integers, for every accepted slippage and amounts of any size.
C18_MinBuyAtMostBuy ==
    callPc \in {"OdosService.parseSwapQuote",
                "ZeroXService.parseQuoteResponse"} =>
       ~ WeiGreater(callResult.minBuyAmount, callResult.buyAmount)

\* ------------------------------------------------------------------------
\* Routing (SwapRoutingService): chain compatibility and swap type
\* ------------------------------------------------------------------------

\* request.sellToken.chain and request.buyToken.chain: the EVM chains
\* Ethereum, Polygon, zkSync Era, Base and Cronos (25, which no adapter
\* serves), Solana, Bitcoin (no chainId) and NEAR.
ChainRefs ==
    [ecosystem : {"evm"}, chainId : Chains \cup {8453}]
    \cup {[ecosystem |-> "solana", chainId |-> 101],
          [ecosystem |-> "bitcoin", chainId |-> 0],
          [ecosystem |-> "near", chainId |-> 397]}

\* request.swapType ("none": not provided).
SwapTypeOverrides ==
    {"none", "on-chain", "cross-chain", "l1-to-l2", "native-swap"}

\* The requests, the provider registry of the routing service (empty before
\* setProviderRegistry) and the chains with an entry in the supported-quote
\* cache.
RoutingInputs ==
    [sellChain : ChainRefs, buyChain : ChainRefs,
     swapType : SwapTypeOverrides,
     providerRegistry : {<<>>, <<"0x", "Odos">>},
     cachedChains : SUBSET {25, 101}]

IsSupportedEcosystem(ecosystem) ==
    ecosystem \in {"evm", "solana", "cosmos", "bitcoin", "thorchain", "maya"}

\* SwapRoutingService.isChainSupported(chain)
IsChainSupported(chain, providerRegistry) ==
    IF chain.chainId = 0 THEN FALSE
    ELSE IF Len(providerRegistry) > 0
    THEN \E i \in 1..Len(providerRegistry) :
            SupportsChain(providerRegistry[i], chain.chainId)
    ELSE TRUE

ValidateChainCompatibility(in) ==
    IF ~ IsSupportedEcosystem(in.sellChain.ecosystem)
       \/ ~ IsSupportedEcosystem(in.buyChain.ecosystem)
    THEN FALSE
    ELSE /\ IsChainSupported(in.sellChain, in.providerRegistry)
         /\ IsChainSupported(in.buyChain, in.providerRegistry)

IsNativeL1Swap(sellEcosystem, buyEcosystem) ==
    \/ sellEcosystem \in {"bitcoin", "thorchain", "maya", "cosmos"}
    \/ buyEcosystem \in {"bitcoin", "thorchain", "maya", "cosmos"}

l1Chains == {1, 56, 137}

l2Chains == {10, 42161, 8453, 324}

DetermineEvmSwapType(sellChainId, buyChainId) ==
    CASE sellChainId \in l1Chains /\ buyChainId \in l2Chains -> "l1-to-l2"
      [] sellChainId \in l2Chains /\ buyChainId \in l1Chains -> "l2-to-l1"
      [] sellChainId \in l2Chains /\ buyChainId \in l2Chains -> "l2-to-l2"
      [] OTHER -> "cross-chain"

\* determineSwapType({...request, swapType: undefined})
DetectSwapType(sellChain, buyChain) ==
    IF sellChain.ecosystem = buyChain.ecosystem
       /\ sellChain.chainId = buyChain.chainId
    THEN "on-chain"
    ELSE IF sellChain.ecosystem # buyChain.ecosystem
    THEN IF IsNativeL1Swap(sellChain.ecosystem, buyChain.ecosystem)
         THEN "native-swap" ELSE "cross-chain"
    ELSE IF sellChain.ecosystem = "evm"
    THEN DetermineEvmSwapType(sellChain.chainId, buyChain.chainId)
    ELSE "cross-chain"

\* validateSwapType that accepts every provided type.
ValidateSwapType_Trusting(in, swapType) == TRUE

\* validateSwapType(request, swapType)
ValidateSwapType(in, swapType) ==
    DetectSwapType(in.sellChain, in.buyChain) = swapType

\* determineSwapType that re-derives a provided type at the granularity
\* on-chain / cross-chain only.
DetermineSwapType_Coarse(in) ==
    IF in.swapType # "none"
    THEN [swapType |-> IF DetectSwapType(in.sellChain, in.buyChain)
                          = "on-chain"
                       THEN "on-chain" ELSE "cross-chain",
          warned |-> FALSE]
    ELSE [swapType |-> DetectSwapType(in.sellChain, in.buyChain),
          warned |-> FALSE]

\* determineSwapType(request): the type returned and whether the warning
\* was logged.
DetermineSwapType(in) ==
    IF in.swapType # "none" /\ ValidateSwapType(in, in.swapType)
    THEN [swapType |-> in.swapType, warned |-> FALSE]
    ELSE [swapType |-> DetectSwapType(in.sellChain, in.buyChain),
          warned |-> in.swapType # "none"]

ValidateChainCompatibilityCall ==
    /\ callPc = "request"
    /\ callResult' = ValidateChainCompatibility(callArgs)
    /\ callPc' = "validateChainCompatibility"
    /\ UNCHANGED <<callArgs, nonCallVars>>

DetermineSwapTypeCall ==
    /\ callPc = "request"
    /\ callResult' = DetermineSwapType(callArgs)
    /\ callPc' = "determineSwapType"
    /\ UNCHANGED <<callArgs, nonCallVars>>

\* determineSwapType(request), then determineSwapType of the same request
\* with swapType set to the first answer.
DetermineSwapTypeRoundTrip ==
    /\ callPc = "request"
    /\ LET first == DetermineSwapType(callArgs).swapType
           second == DetermineSwapType(
                        [callArgs EXCEPT !.swapType = first]).swapType
       IN callResult' = [first |-> first, second |-> second]
    /\ callPc' = "roundTrip"
    /\ UNCHANGED <<callArgs, nonCallVars>>

NextRouting ==
    \/ ValidateChainCompatibilityCall
    \/ DetermineSwapTypeCall
    \/ DetermineSwapTypeRoundTrip

InitRouting ==
    /\ ExecIdle
    /\ MgrIdle
    /\ SelIdle
    /\ FanIdle
    /\ LookupsIdle
    /\ BootIdle
    /\ HttpIdle
    /\ RateIdle
    /\ callPc = "request"
    /\ callArgs \in RoutingInputs
    /\ callResult = <<>>

SpecRouting == InitRouting /\ [][NextRouting]_vars

\* Some registered adapter accepts the chain, or the cache has an entry
\* for it.
ChainKnown(chain, in) ==
    \/ \E i \in 1..Len(in.providerRegistry) :
          SupportsChain(in.providerRegistry[i], chain.chainId)
    \/ chain.chainId \in in.cachedChains

InconsistentOnChain ==
    /\ callPc = "determineSwapType"
    /\ callArgs.swapType = "on-chain"
    /\ callArgs.sellChain # callArgs.buyChain

\* C20 as stated: an on-chain override on a request whose chains differ is
\* discarded with a warning and the classifier returns cross-chain.
C20_ReturnsCrossChain ==
    InconsistentOnChain =>
       callResult = [swapType |-> "cross-chain", warned |-> TRUE]

\* C20: an on-chain override on a request whose chains differ is discarded
\* with a warning and the request is never classified on-chain; the
\* classifier returns the re-derived type: native-swap when an ecosystem
\* is a native L1, l1-to-l2, l2-to-l1 or l2-to-l2 for EVM chains of those
\* layers, cross-chain otherwise.
C20_OverrideDiscarded ==
    InconsistentOnChain =>
       LET sell == callArgs.sellChain
           buy == callArgs.buyChain
           layered == /\ sell.ecosystem = "evm" /\ buy.ecosystem = "evm"
                      /\ sell.chainId \in l1Chains \cup l2Chains
                      /\ buy.chainId \in l1Chains \cup l2Chains
                      /\ ~ (sell.chainId \in l1Chains
                            /\ buy.chainId \in l1Chains)
           native == /\ sell.ecosystem # buy.ecosystem
                     /\ {sell.ecosystem, buy.ecosystem}
                           \cap {"bitcoin", "thorchain", "maya", "cosmos"}
                        # {}
       IN /\ callResult.warned
          /\ callResult.swapType # "on-chain"
          /\ native => callResult.swapType = "native-swap"
          /\ layered =>
                callResult.swapType \in {"l1-to-l2", "l2-to-l1", "l2-to-l2"}
          /\ (~ native /\ ~ layered) => callResult.swapType = "cross-chain"

\* Ethereum to zkSync Era with swapType = on-chain: the override is
\* discarded and the request is classified l1-to-l2.
C20_Witness ==
    /\ InconsistentOnChain
    /\ callArgs.sellChain.chainId = 1
    /\ callArgs.buyChain.chainId = 324
    /\ callResult = [swapType |-> "l1-to-l2", warned |-> TRUE]

\* C21: determineSwapType(req) = determineSwapType(req with swapType set
\* to that result), whatever override (or none) req carried.
C21_ClassifierIdempotent ==
    callPc = "roundTrip" => callResult.second = callResult.first

\* Ethereum to zkSync Era with an on-chain override: classified l1-to-l2,
\* and again l1-to-l2 when that answer is fed back as the override.
C21_Witness ==
    /\ callPc = "roundTrip"
    /\ callArgs.swapType = "on-chain"
    /\ callArgs.sellChain.chainId = 1
    /\ callArgs.buyChain.chainId = 324
    /\ callResult = [first |-> "l1-to-l2", second |-> "l1-to-l2"]

\* ------------------------------------------------------------------------
\* Permit2 signature splice (Permit2Service.appendSignatureToTxData)
\* ------------------------------------------------------------------------

\* A hex string is the sequence of its hex digits after "0x"; two digits
\* make one byte.
MaxDataBytes == 2

\* quote.data: whole bytes, as returned by the 0x API.
TxDatas ==
    {q \in SeqsOver({0, 15}, 2 * MaxDataBytes) : Len(q) % 2 = 0}

\* walletClient.signTypedData results: 65-byte signatures, and shorter
\* ones to exercise the length word.
Signatures ==
    {q \in SeqsOver({1, 11}, 4) : Len(q) \in {2, 4}}
    \cup {[i \in 1..130 |-> IF i % 2 = 1 THEN 1 ELSE b] : b \in {11, 12}}

\* viem size(hex): Math.ceil((hex.length - 2) / 2)
Size(hex) == (Len(hex) + 1) \div 2

\* value.toString(16)
RECURSIVE ToString16(_)

ToString16(n) ==
    IF n < 16 THEN <<n>> ELSE Append(ToString16(n \div 16), n % 16)

\* viem pad(hex, {size}): left-padded with zero digits to size bytes.
Pad(hex, size) == [i \in 1..(2 * size - Len(hex)) |-> 0] \o hex

\* numberToHex without the padding to size bytes.
NumberToHex_Unpadded(n, size) == ToString16(n)

\* viem numberToHex(value, {signed: false, size})
NumberToHex(n, size) == Pad(ToString16(n), size)

\* appendSignatureToTxData(transactionData, signature)
AppendSignatureToTxData(transactionData, signature) ==
    LET signatureLengthInHex == NumberToHex(Size(signature), 32)
    IN transactionData \o signatureLengthInHex \o signature

\* processPermit2Quote(quote, privateKey, chainId): signs the permit and
\* splices the signature, or throws when the quote has no permit2 data or
\* signing fails.
ProcessPermit2Quote ==
    /\ callPc = "quote"
    /\ \/ /\ ~ callArgs.hasPermit2
          /\ callResult' = [error |-> "Quote does not contain permit2 data"]
       \/ /\ callArgs.hasPermit2
          /\ callResult' = [error |-> "Permit2 workflow failed"]
       \/ /\ callArgs.hasPermit2
          /\ \E signature \in Signatures :
                callResult' =
                   [originalTxData |-> callArgs.data,
                    signature |-> signature,
                    modifiedTxData |->
                       AppendSignatureToTxData(callArgs.data, signature)]
    /\ callPc' = "processPermit2Quote"
    /\ UNCHANGED <<callArgs, nonCallVars>>

NextPermit2 == ProcessPermit2Quote

InitPermit2 ==
    /\ ExecIdle
    /\ MgrIdle
    /\ SelIdle
    /\ FanIdle
    /\ LookupsIdle
    /\ BootIdle
    /\ HttpIdle
    /\ RateIdle
    /\ callPc = "quote"
    /\ callArgs \in [data : TxDatas, hasPermit2 : BOOLEAN]
    /\ callResult = <<>>

SpecPermit2 == InitPermit2 /\ [][NextPermit2]_vars

RECURSIVE FromHex(_)

\* The unsigned integer written big-endian by a sequence of hex digits.
FromHex(hex) ==
    IF hex = <<>> THEN 0
    ELSE 16 * FromHex(SubSeq(hex, 1, Len(hex) - 1)) + hex[Len(hex)]

Spliced ==
    /\ callPc = "processPermit2Quote"
    /\ "modifiedTxData" \in DOMAIN callResult

\* C22: modifiedTxData is the quote's original data, then a 32-byte
\* big-endian unsigned integer equal to the signature's length in bytes,
\* then the signature; its length is len(original) + 32 + len(signature)
\* bytes and stripping the signature and the length word gives the
\* original data.
C22_SpliceLayout ==
    Spliced =>
       LET original == callArgs.data
           modified == callResult.modifiedTxData
           signature == callResult.signature
           n == Len(original)
       IN /\ callResult.originalTxData = original
          /\ Len(modified) = n + 2 * 32 + Len(signature)
          /\ Len(modified) % 2 = 0
          /\ SubSeq(modified, 1, n) = original
          /\ FromHex(SubSeq(modified, n + 1, n + 2 * 32))
                = Len(signature) \div 2
          /\ SubSeq(modified, n + 2 * 32 + 1, Len(modified)) = signature
          /\ SubSeq(modified, 1, Len(modified) - Len(signature) - 2 * 32)
                = original

\* A two-byte payload spliced with a 65-byte signature.
C22_Witness ==
    /\ Spliced
    /\ Len(callArgs.data) = 4
    /\ Len(callResult.signature) = 130
    /\ Len(callResult.modifiedTxData) = 198
    /\ callResult.modifiedTxData[4 + 63] = 4
    /\ callResult.modifiedTxData[4 + 64] = 1

\* ------------------------------------------------------------------------
\* Approval decisions (ApprovalService, Permit2Service, pre-check probe)
\* ------------------------------------------------------------------------

\* The native-token sentinels in the letter cases a client may send, and
\* one ERC-20 token (USDC).
SentinelAddresses ==
    {"0x0000000000000000000000000000000000000000",
     "0xeeeeeeeeeeeeeeeeeeeeeeeeeeeeeeeeeeeeeeee",
     "0xEeeeeEeeeEeEeeEeEeEeeEEEeeeeEeeeeeeeEEeE",
     "0xEEEEEEEEEEEEEEEEEEEEEEEEEEEEEEEEEEEEEEEE"}

SellTokenAddresses ==
    SentinelAddresses \cup {"0xA0b86991c6218b36c1d19D4a2e9Eb0cE3606eB48"}

\* A contract read that reverts or fails.
Reverts == 0 - 1

\* Permit2.allowance(owner, token, spender): the read fails, or returns
\* (amount, expiration, nonce).
Permit2Allowances ==
    [ok : {TRUE}, amount : {0, 5, 9}, expiration : {9, 10, 11}]
    \cup {[ok |-> FALSE, amount |-> 0, expiration |-> 0]}

\* The arguments of an approval decision and the answers of the chain:
\* erc20Reads1 / erc20Reads2 are the symbol() and decimals() reads of the
\* first and second isTokenPermit2Compatible call, erc20Allowance the
\* result of walletService.getAllowance, spender the address found by
\* getSpenderForSwap ("" when no quote names an allowance target).  No
\* contract answers at a sentinel address.
ApprovalInputs ==
    {in \in [tokenAddress : SellTokenAddresses,
             permit2Supported : BOOLEAN,
             amount : {5},
             erc20Reads1 : BOOLEAN,
             erc20Reads2 : BOOLEAN,
             permit2Allowance : Permit2Allowances,
             currentTime : {10},
             erc20Allowance : {Reverts, 0, 5},
             spender : {"", "0xdef1c0ded9bec7f1a1670819833240f027b25eff"}] :
        in.tokenAddress \in SentinelAddresses =>
            /\ ~ in.erc20Reads1
            /\ ~ in.erc20Reads2
            /\ in.erc20Allowance = Reverts}

GetNativeTokenAddress == "0x0000000000000000000000000000000000000000"

\* chain.utils isNativeToken(tokenAddress)
IsNativeToken(tokenAddress) ==
    ToLowerCase(tokenAddress) = ToLowerCase(GetNativeTokenAddress)

\* Permit2Service.isTokenPermit2Compatible, given the outcome of the
\* symbol() and decimals() reads.
IsTokenPermit2Compatible(in, erc20Reads) ==
    IF ~ in.permit2Supported THEN FALSE
    ELSE IF \/ in.tokenAddress = "0x0000000000000000000000000000000000000000"
            \/ ToLowerCase(in.tokenAddress)
                  = "0xeeeeeeeeeeeeeeeeeeeeeeeeeeeeeeeeeeeeeeee"
    THEN FALSE
    ELSE erc20Reads

\* isExpired with an allowance expiring now counted as expired.
IsExpired_Inclusive(expiration, currentTime) == expiration <= currentTime

\* const isExpired = expiration < currentTime
IsExpired(expiration, currentTime) == expiration < currentTime

\* Permit2Service.isPermit2ApprovalNeeded reaches and completes the
\* allowance read.
Permit2AllowanceRead(in) ==
    /\ IsTokenPermit2Compatible(in, in.erc20Reads2)
    /\ in.permit2Allowance.ok

\* Permit2Service.isPermit2ApprovalNeeded
IsPermit2ApprovalNeeded(in) ==
    IF ~ IsTokenPermit2Compatible(in, in.erc20Reads2) THEN "true"
    ELSE IF ~ in.permit2Allowance.ok THEN "true"
    ELSE IF \/ IsExpired(in.permit2Allowance.expiration, in.currentTime)
            \/ in.permit2Allowance.amount < in.amount
    THEN "true"
    ELSE "false"

TakesPermit2Path(in) ==
    /\ ~ IsNativeToken(in.tokenAddress)
    /\ in.permit2Supported
    /\ IsTokenPermit2Compatible(in, in.erc20Reads1)

\* ApprovalService.isApprovalNeeded: "true", "false" or "throws".
ApprovalServiceIsApprovalNeeded(in) ==
    IF IsNativeToken(in.tokenAddress) THEN "false"
    ELSE IF TakesPermit2Path(in) THEN IsPermit2ApprovalNeeded(in)
    ELSE IF in.erc20Allowance = Reverts THEN "throws"
    ELSE IF in.erc20Allowance < in.amount THEN "true" ELSE "false"

\* ApprovalService.getApprovalStatus(...).isApprovalNeeded
GetApprovalStatus(in) ==
    IF IsNativeToken(in.tokenAddress) THEN "false"
    ELSE IF in.erc20Allowance = Reverts THEN "throws"
    ELSE IF in.erc20Allowance < in.amount THEN "true" ELSE "false"

\* The approval probe of universalPreCheck for an EVM sell token:
\* approvalRequired ("null" when the check is skipped) and the warning.
PreCheckApprovalProbe(in) ==
    IF ToLowerCase(in.tokenAddress)
          = "0xeeeeeeeeeeeeeeeeeeeeeeeeeeeeeeeeeeeeeeee"
    THEN [approvalRequired |-> "false", warning |-> "none"]
    ELSE IF in.spender = ""
    THEN [approvalRequired |-> "null",
          warning |->
             "Approval check skipped: unable to determine spender address"]
    ELSE LET status == GetApprovalStatus(in)
         IN CASE status = "throws" ->
                    [approvalRequired |-> "false",
                     warning |-> "Approval check failed"]
              [] status = "true" ->
                    [approvalRequired |-> "true",
                     warning |-> "Token approval required for swap"]
              [] OTHER ->
                    [approvalRequired |-> "false", warning |-> "none"]

IsApprovalNeededCall ==
    /\ callPc = "request"
    /\ callResult' = [value |-> ApprovalServiceIsApprovalNeeded(callArgs),
                      permit2Read |-> /\ TakesPermit2Path(callArgs)
                                      /\ Permit2AllowanceRead(callArgs)]
    /\ callPc' = "isApprovalNeeded"
    /\ UNCHANGED <<callArgs, nonCallVars>>

\* executeSwap after the quote: if (!isNativeToken(sellToken)) the
\* approval step handleApproval runs.
ExecuteSwapApprovalStep ==
    /\ callPc = "request"
    /\ callResult' = [handleApproval |-> ~ IsNativeToken(callArgs.tokenAddress)]
    /\ callPc' = "executeSwap"
    /\ UNCHANGED <<callArgs, nonCallVars>>

UniversalPreCheckApproval ==
    /\ callPc = "request"
    /\ callResult' = PreCheckApprovalProbe(callArgs)
    /\ callPc' = "universalPreCheck"
    /\ UNCHANGED <<callArgs, nonCallVars>>

\* ApprovalService.getApprovalStatus on the same arguments and chain state.
GetApprovalStatusCall ==
    /\ callPc = "request"
    /\ callResult' = [isApprovalNeeded |-> GetApprovalStatus(callArgs)]
    /\ callPc' = "getApprovalStatus"
    /\ UNCHANGED <<callArgs, nonCallVars>>

NextApproval ==
    \/ GetApprovalStatusCall
    \/ IsApprovalNeededCall
    \/ ExecuteSwapApprovalStep
    \/ UniversalPreCheckApproval

InitApproval ==
    /\ ExecIdle
    /\ MgrIdle
    /\ SelIdle
    /\ FanIdle
    /\ LookupsIdle
    /\ BootIdle
    /\ HttpIdle
    /\ RateIdle
    /\ callPc = "request"
    /\ callArgs \in ApprovalInputs
    /\ callResult = <<>>

SpecApproval == InitApproval /\ [][NextApproval]_vars

\* C23: for both native-token sentinels in any letter case,
\* isApprovalNeeded returns false, the execution coordinator performs no
\* approval step and the pre-check reports approvalRequired = false.
C23_SentinelsNeverNeedApproval ==
    (/\ callPc # "request"
     /\ callArgs.tokenAddress \in SentinelAddresses)
    => /\ callPc = "isApprovalNeeded" => callResult.value = "false"
       /\ callPc = "executeSwap" => ~ callResult.handleApproval
       /\ callPc = "universalPreCheck" =>
             callResult.approvalRequired = "false"

\* C24: on a Permit2-supported chain with a Permit2-compatible token,
\* isApprovalNeeded returns true if and only if the Permit2 allowance read
\* is expired (expiration < now) or its amount is smaller than the
\* required amount.
C24_Permit2NeededIff ==
    (/\ callPc = "isApprovalNeeded"
     /\ callResult.permit2Read)
    => /\ callResult.value \in {"true", "false"}
       /\ callResult.value = "true"
             <=> \/ callArgs.permit2Allowance.expiration
                       < callArgs.currentTime
                 \/ callArgs.permit2Allowance.amount < callArgs.amount

\* An allowance of exactly the required amount that expires exactly now
\* is read and no approval is needed.
C24_Witness ==
    /\ callPc = "isApprovalNeeded"
    /\ callResult.permit2Read
    /\ callArgs.permit2Allowance.amount = callArgs.amount
    /\ callArgs.permit2Allowance.expiration = callArgs.currentTime
    /\ callResult.value = "false"

\* ------------------------------------------------------------------------
\* Quote retries and the confirmation wait of executeSwap
\* ------------------------------------------------------------------------

\* The getQuote attempts made so far, in order.
QuoteAttempts ==
    LET IsQuote(c) == c.op = "getQuote"
    IN SelectSeq(calls, IsQuote)

\* The sleeps taken between getQuote attempts, in order.
QuoteDelays ==
    LET IsQuoteSleep(x) == x.loop = "quote"
    IN SelectSeq(delays, IsQuoteSleep)

FailedQuoteAttempts ==
    Cardinality({i \in 1..Len(QuoteAttempts) : ~ QuoteAttempts[i].ok})

\* C25: quote acquisition makes at most 3 attempts, sleeps 1 s, 2 s, ...
\* (doubling) between attempts, stops at the first attempt that succeeds,
\* and after the third consecutive failure fails the execution without
\* any approval or swap call.
C25_QuoteRetryBounded ==
    /\ Len(QuoteAttempts) <= 3
    /\ \A i \in 1..(Len(QuoteAttempts) - 1) : ~ QuoteAttempts[i].ok
    /\ Len(QuoteDelays)
          = IF FailedQuoteAttempts = 3 THEN 2 ELSE FailedQuoteAttempts
    /\ \A i \in 1..Len(QuoteDelays) : QuoteDelays[i].ms = 1000 * 2 ^ (i - 1)
    /\ FailedQuoteAttempts = 3 =>
          /\ pc = "failed"
          /\ quote = NoQuote
          /\ \A i \in 1..Len(calls) : calls[i].op = "getQuote"
          /\ approvalTx = "none"
          /\ swapTx = "none"

\* Three failed attempts with sleeps of 1 s and 2 s between them.
C25_Witness ==
    /\ pc = "failed"
    /\ FailedQuoteAttempts = 3
    /\ QuoteDelays = <<[loop |-> "quote", ms |-> 1000],
                       [loop |-> "quote", ms |-> 2000]>>

\* A success on the third attempt carries the execution on to the swap.
C25_WitnessThirdSucceeds ==
    /\ Len(QuoteAttempts) = 3
    /\ QuoteAttempts[3].ok
    /\ swapTx = "submitted"

MaxLogs == 2

\* receipt.logs entries: the emitting contract, the event of topics[0],
\* the number of topics, the address in topics[2] and the amount in data.
\* Transfers of the buy token (USDC, address in either letter case) to the
\* recipient or to someone else, a transfer of another token, an Approval
\* of the buy token and a Transfer with too few topics.
ReceiptLogs ==
    [address : {"0xa0b86991c6218b36c1d19d4a2e9eb0ce3606eb48",
                "0xA0b86991c6218b36c1d19D4a2e9Eb0cE3606eB48"},
     event : {"Transfer"}, topics : {3},
     to : {"0x52908400098527886e0f7030069857d2e4169ee7",
           "0xdef1c0ded9bec7f1a1670819833240f027b25eff"},
     amount : {7, 9}]
    \cup {[address |-> "0xdef1c0ded9bec7f1a1670819833240f027b25eff",
           event |-> "Transfer", topics |-> 3,
           to |-> "0x52908400098527886e0f7030069857d2e4169ee7",
           amount |-> 7],
          [address |-> "0xa0b86991c6218b36c1d19d4a2e9eb0ce3606eb48",
           event |-> "Approval", topics |-> 3,
           to |-> "0x52908400098527886e0f7030069857d2e4169ee7",
           amount |-> 7],
          [address |-> "0xa0b86991c6218b36c1d19d4a2e9eb0ce3606eb48",
           event |-> "Transfer", topics |-> 2,
           to |-> "0x52908400098527886e0f7030069857d2e4169ee7",
           amount |-> 7]}

\* Address comparison by exact spelling.
SameAddress_Exact(a, b) == a = b

\* a.toLowerCase() === b.toLowerCase()
SameAddress(a, b) == ToLowerCase(a) = ToLowerCase(b)

\* The test of parseTokenTransfers on one log.
IsTokenTransfer(log, tokenAddress) ==
    /\ SameAddress(log.address, tokenAddress)
    /\ log.event = "Transfer"
    /\ log.topics >= 3

\* parseTokenTransfers(receipt, tokenAddress)
ParseTokenTransfers(logs, tokenAddress) ==
    LET Keep(log) == IsTokenTransfer(log, tokenAddress)
        kept == SelectSeq(logs, Keep)
    IN [i \in 1..Len(kept) |-> [to |-> kept[i].to, amount |-> kept[i].amount]]

\* transfers.find(transfer => transfer.to.toLowerCase() ===
\* recipient.toLowerCase()): the index of the first one, 0 when none.
FindBuyTransfer(transfers, recipient) ==
    LET hits == {i \in 1..Len(transfers) :
                    SameAddress(transfers[i].to, recipient)}
    IN IF hits = {} THEN 0
       ELSE CHOOSE i \in hits : \A j \in hits : i <= j

\* parseSwapResult(receipt, quote, txHash, recipient, chainId).buyAmount
ParseSwapResultBuyAmount(in) ==
    LET transfers == ParseTokenTransfers(in.logs, in.quote.buyToken)
        buyTransfer == FindBuyTransfer(transfers, in.recipient)
    IN IF buyTransfer # 0 THEN transfers[buyTransfer].amount
       ELSE in.quote.buyAmount

ParseSwapResultCall ==
    /\ callPc = "receipt"
    /\ callResult' = [buyAmount |-> ParseSwapResultBuyAmount(callArgs)]
    /\ callPc' = "parseSwapResult"
    /\ UNCHANGED <<callArgs, nonCallVars>>

NextParse == ParseSwapResultCall

InitParse ==
    /\ ExecIdle
    /\ MgrIdle
    /\ SelIdle
    /\ FanIdle
    /\ LookupsIdle
    /\ BootIdle
    /\ HttpIdle
    /\ RateIdle
    /\ callPc = "receipt"
    /\ callArgs \in
          [logs : SeqsOver(ReceiptLogs, MaxLogs),
           quote : [buyToken :
                       {"0xA0b86991c6218b36c1d19D4a2e9Eb0cE3606eB48"},
                    buyAmount : {10}],
           recipient : {"0x52908400098527886E0F7030069857D2E4169EE7",
                        "0x52908400098527886e0f7030069857d2e4169ee7"}]
    /\ callResult = <<>>

SpecParse == InitParse /\ [][NextParse]_vars

\* The positions of the receipt's ERC-20 Transfer events on the buy token
\* that target the recipient.
ReceivedAt ==
    {i \in 1..Len(callArgs.logs) :
        LET log == callArgs.logs[i]
        IN /\ log.event = "Transfer"
           /\ log.topics = 3
           /\ ToLowerCase(log.address) = ToLowerCase(callArgs.quote.buyToken)
           /\ log.to = ToLowerCase(callArgs.recipient)}

Keywords ==
    {"Insufficient funds", "insufficient funds", "gas", "slippage",
     "deadline", "network", "nonce", "replacement"}

MaxKeywords == 2

UpstreamMessages == {m \in SUBSET Keywords : Cardinality(m) <= MaxKeywords}

\* error.message.includes(keyword)
Includes(message, keyword) == keyword \in message

\* The catch block of executeSwap.
TranslateExecuteSwapError(message) ==
    IF \/ Includes(message, "Insufficient funds")
       \/ Includes(message, "insufficient funds")
    THEN "Insufficient funds for transaction. Please check your wallet balance."
    ELSE IF Includes(message, "gas")
    THEN "Gas estimation failed. The transaction may fail or gas limit may be too low."
    ELSE IF Includes(message, "slippage")
    THEN "Transaction failed due to slippage tolerance exceeded"
    ELSE IF Includes(message, "deadline")
    THEN "Transaction failed due to deadline exceeded"
    ELSE IF Includes(message, "network")
    THEN "Network error occurred during transaction"
    ELSE "Swap execution failed: <message>"

\* The catch block of executeAllowanceHolderSwap.
TranslateAllowanceHolderError(message) ==
    IF \/ Includes(message, "Insufficient funds")
       \/ Includes(message, "insufficient funds")
    THEN "Insufficient funds for transaction. Please check your wallet balance."
    ELSE IF Includes(message, "gas")
    THEN "Gas estimation failed. The transaction may fail or gas limit may be too low."
    ELSE IF Includes(message, "nonce")
    THEN "Transaction nonce issue. Please try again."
    ELSE IF Includes(message, "replacement")
    THEN "Transaction replacement issue. Please wait for pending transactions to complete."
    ELSE "AllowanceHolder swap execution failed: <message>"

ExecuteSwapFails ==
    /\ callPc = "failure"
    /\ callResult' = TranslateExecuteSwapError(callArgs)
    /\ callPc' = "executeSwap"
    /\ UNCHANGED <<callArgs, nonCallVars>>

ExecuteAllowanceHolderSwapFails ==
    /\ callPc = "failure"
    /\ callResult' = TranslateAllowanceHolderError(callArgs)
    /\ callPc' = "executeAllowanceHolderSwap"
    /\ UNCHANGED <<callArgs, nonCallVars>>

NextTranslate ==
    \/ ExecuteSwapFails
    \/ ExecuteAllowanceHolderSwapFails

InitTranslate ==
    /\ ExecIdle
    /\ MgrIdle
    /\ SelIdle
    /\ FanIdle
    /\ LookupsIdle
    /\ BootIdle
    /\ HttpIdle
    /\ RateIdle
    /\ callPc = "failure"
    /\ callArgs \in UpstreamMessages
    /\ callResult = <<>>

SpecTranslate == InitTranslate /\ [][NextTranslate]_vars

ErrorCategories ==
    {"insufficient-funds", "gas-estimation", "slippage", "deadline",
     "network", "nonce", "replacement"}

\* The categories whose substring the message contains.
CategoriesOf(message) ==
    {c \in ErrorCategories :
        CASE c = "insufficient-funds" ->
                message \cap {"Insufficient funds", "insufficient funds"} # {}
          [] c = "gas-estimation" -> "gas" \in message
          [] OTHER -> c \in message}

\* The user message of a category.
UserMessage(c) ==
    CASE c = "insufficient-funds" ->
            "Insufficient funds for transaction. Please check your wallet balance."
      [] c = "gas-estimation" ->
            "Gas estimation failed. The transaction may fail or gas limit may be too low."
      [] c = "slippage" ->
            "Transaction failed due to slippage tolerance exceeded"
      [] c = "deadline" -> "Transaction failed due to deadline exceeded"
      [] c = "network" -> "Network error occurred during transaction"
      [] c = "nonce" -> "Transaction nonce issue. Please try again."
      [] c = "replacement" ->
            "Transaction replacement issue. Please wait for pending transactions to complete."

\* C28: an execution failure whose upstream message matches one of the
\* seven categories is translated to the user message of that category,
\* and the seven user messages are pairwise distinct.
C28_EveryCategoryTranslated ==
    /\ \A c, e \in ErrorCategories : c # e => UserMessage(c) # UserMessage(e)
    /\ callPc \in {"executeSwap", "executeAllowanceHolderSwap"} =>
          \A c \in ErrorCategories :
             CategoriesOf(callArgs) = {c} => callResult = UserMessage(c)

\* ------------------------------------------------------------------------
\* Universal pre-check (UniversalSwapController.universalPreCheck)
\* ------------------------------------------------------------------------

MaxFanQuotes == 2

\* What aggregatorManager.getMultipleQuotes returns to the liquidity
\* probe: the buyAmounts of the fulfilled quotes in provider order (an
\* adapter queried without strict validation may quote 0).  The call
\* throws when no adapter quotes.
FanOutResults == SeqsOver({0, 5}, MaxFanQuotes) \ {<<>>}

\* The pre-check result before any probe has run.
NoProbes ==
    [parametersValid |-> "unset", liquidityAvailable |-> "unset",
     approvalRequired |-> "unset", sufficientBalance |-> "unset",
     providerHealthy |-> "unset", warnings |-> <<>>, threw |-> {},
     quotes |-> <<>>]

\* warnings.push(...) when the probe has something to report.
Warn(sofar, warning) ==
    IF warning = "none" THEN sofar.warnings
    ELSE Append(sofar.warnings, warning)

\* The probes are not chained: whatever a probe found, the next one runs.
AfterProbe_ShortCircuit(next, failed) == IF failed THEN "returned" ELSE next

AfterProbe(next, failed) == next

\* quotes.length > 0 && parseFloat(quotes[0].quote.buyAmount) > 0
LiquidityOf(found) == Len(found) > 0 /\ found[1] > 0

Bool(b) == IF b THEN "true" ELSE "false"

\* Probe 1: swapRoutingService.validateChainCompatibility(request).
ProbeParameters ==
    /\ callPc = "parameters"
    /\ \E outcome \in {"true", "false", "throws"} :
          /\ callResult' =
                [callResult EXCEPT
                   !.parametersValid = Bool(outcome = "true"),
                   !.warnings =
                      Warn(callResult,
                           CASE outcome = "false" ->
                                   "Unsupported chain combination for swap"
                             [] outcome = "throws" ->
                                   "Parameter validation failed"
                             [] OTHER -> "none"),
                   !.threw = IF outcome = "throws" THEN @ \cup {"parameters"}
                             ELSE @]
          /\ callPc' = AfterProbe("liquidity", outcome # "true")
    /\ UNCHANGED <<callArgs, nonCallVars>>

\* Probe 2: the multi-quote fan-out for EVM, a stub otherwise.
ProbeLiquidity ==
    /\ callPc = "liquidity"
    /\ \/ /\ callArgs.ecosystem = "evm"
          /\ \E found \in FanOutResults :
                /\ callResult' =
                      [callResult EXCEPT
                         !.liquidityAvailable = Bool(LiquidityOf(found)),
                         !.quotes = found,
                         !.warnings =
                            Warn(callResult,
                                 IF LiquidityOf(found) THEN "none"
                                 ELSE "No liquidity available for requested swap")]
                /\ callPc' = AfterProbe("approval", ~ LiquidityOf(found))
       \/ /\ callArgs.ecosystem = "evm"
          /\ callResult' =
                [callResult EXCEPT
                   !.liquidityAvailable = "false",
                   !.warnings = Warn(callResult, "Liquidity check failed"),
                   !.threw = @ \cup {"liquidity"}]
          /\ callPc' = AfterProbe("approval", TRUE)
       \/ /\ callArgs.ecosystem # "evm"
          /\ callResult' =
                [callResult EXCEPT
                   !.liquidityAvailable = "true",
                   !.warnings =
                      Warn(callResult,
                           "Liquidity check stubbed for non-EVM ecosystem")]
          /\ callPc' = AfterProbe("approval", FALSE)
    /\ UNCHANGED <<callArgs, nonCallVars>>

\* Probe 3: the approval probe for EVM, a stub otherwise.
ProbeApproval ==
    /\ callPc = "approval"
    /\ \/ /\ callArgs.ecosystem = "evm"
          /\ \E in \in ApprovalInputs :
                LET probe == PreCheckApprovalProbe(in)
                IN /\ callResult' =
                         [callResult EXCEPT
                            !.approvalRequired = probe.approvalRequired,
                            !.warnings = Warn(callResult, probe.warning),
                            !.threw =
                               IF probe.warning = "Approval check failed"
                               THEN @ \cup {"approval"} ELSE @]
                   /\ callPc' = AfterProbe("balance", probe.warning # "none")
       \/ /\ callArgs.ecosystem # "evm"
          /\ callResult' = [callResult EXCEPT !.approvalRequired = "false"]
          /\ callPc' = AfterProbe("balance", FALSE)
    /\ UNCHANGED <<callArgs, nonCallVars>>

\* Probe 4: walletService.getBalance against sellAmount for EVM.
ProbeBalance ==
    /\ callPc = "balance"
    /\ \E outcome \in IF callArgs.ecosystem = "evm"
                      THEN {"true", "false", "throws"} ELSE {"true"} :
          /\ callResult' =
                [callResult EXCEPT
                   !.sufficientBalance = Bool(outcome = "true"),
                   !.warnings =
                      Warn(callResult,
                           CASE outcome = "false" ->
                                   "Insufficient wallet balance for swap"
                             [] outcome = "throws" ->
                                   "Wallet balance check failed"
                             [] OTHER -> "none"),
                   !.threw = IF outcome = "throws" THEN @ \cup {"balance"}
                             ELSE @]
          /\ callPc' = AfterProbe("health", outcome # "true")
    /\ UNCHANGED <<callArgs, nonCallVars>>

\* Probe 5: aggregatorManager.getProvidersHealth for EVM, then the return.
ProbeHealth ==
    /\ callPc = "health"
    /\ \E outcome \in IF callArgs.ecosystem = "evm"
                      THEN {"true", "false", "throws"} ELSE {"true"} :
          /\ callResult' =
                [callResult EXCEPT
                   !.providerHealthy = Bool(outcome = "true"),
                   !.warnings =
                      Warn(callResult,
                           CASE outcome = "false" ->
                                   "Swap provider is currently unhealthy"
                             [] outcome = "throws" ->
                                   "Provider health check failed"
                             [] OTHER -> "none"),
                   !.threw = IF outcome = "throws" THEN @ \cup {"health"}
                             ELSE @]
          /\ callPc' = "returned"
    /\ UNCHANGED <<callArgs, nonCallVars>>

NextPreCheck ==
    \/ ProbeParameters
    \/ ProbeLiquidity
    \/ ProbeApproval
    \/ ProbeBalance
    \/ ProbeHealth

InitPreCheck ==
    /\ ExecIdle
    /\ MgrIdle
    /\ SelIdle
    /\ FanIdle
    /\ LookupsIdle
    /\ BootIdle
    /\ HttpIdle
    /\ RateIdle
    /\ callPc = "parameters"
    /\ callArgs \in [ecosystem : {"evm", "solana"}]
    /\ callResult = NoProbes

SpecPreCheck == InitPreCheck /\ [][NextPreCheck]_vars

ProbeOrder ==
    <<"parameters", "liquidity", "approval", "balance", "health", "returned">>

\* The result field written by each probe.
FieldOf(probe) ==
    CASE probe = "parameters" -> "parametersValid"
      [] probe = "liquidity" -> "liquidityAvailable"
      [] probe = "approval" -> "approvalRequired"
      [] probe = "balance" -> "sufficientBalance"
      [] probe = "health" -> "providerHealthy"

\* The warnings a probe pushes when it fails or throws.
WarningsOf(probe) ==
    CASE probe = "parameters" ->
            {"Unsupported chain combination for swap",
             "Parameter validation failed"}
      [] probe = "liquidity" ->
            {"No liquidity available for requested swap",
             "Liquidity check failed"}
      [] probe = "approval" -> {"Approval check failed"}
      [] probe = "balance" ->
            {"Insufficient wallet balance for swap",
             "Wallet balance check failed"}
      [] probe = "health" ->
            {"Swap provider is currently unhealthy",
             "Provider health check failed"}

\* C29: the pre-check runs all five probes whatever the outcome of the
\* others: the result is returned only after every probe has recorded its
\* value, and a probe that failed or threw has recorded false and a
\* warning of its own.
C29_AllProbesRun ==
    /\ callPc \in Range(ProbeOrder)
    /\ \A i, j \in 1..Len(ProbeOrder) :
          (callPc = ProbeOrder[j] /\ i < j) =>
             LET value == callResult[FieldOf(ProbeOrder[i])]
             IN /\ value # "unset"
                /\ (value = "false" /\ ProbeOrder[i] # "approval") =>
                      WarningsOf(ProbeOrder[i]) \cap Range(callResult.warnings)
                         # {}
                /\ ProbeOrder[i] \in callResult.threw =>
                      /\ value = "false"
                      /\ WarningsOf(ProbeOrder[i])
                            \cap Range(callResult.warnings) # {}

\* The first four probes all threw and the health probe still ran and
\* reported a healthy provider.
C29_Witness ==
    /\ callPc = "returned"
    /\ callResult.threw = {"parameters", "liquidity", "approval", "balance"}
    /\ callResult.providerHealthy = "true"
    /\ Len(callResult.warnings) = 4

\* C30: for an EVM pre-check, liquidityAvailable is true if and only if
\* at least one quote returned by the fan-out has buyAmount > 0, wherever
\* that quote stands in the fan-out result.
C30_LiquidIffSomeQuotePositive ==
    (/\ callArgs.ecosystem = "evm"
     /\ callResult.liquidityAvailable # "unset")
    => (callResult.liquidityAvailable = "true"
           <=> \E i \in 1..Len(callResult.quotes) : callResult.quotes[i] > 0)

\* ------------------------------------------------------------------------
\* Input validation of QuoteService.getQuote
\* ------------------------------------------------------------------------

\* Well-formed 20-byte addresses among the strings a request may carry
\* ("" is a missing address, "0x123" a malformed one).
ValidAddresses ==
    {"0xA0b86991c6218b36c1d19D4a2e9Eb0cE3606eB48",
     "0xC02aaA39b223FE8D0A0e5C4F27eAD9083C756Cc2",
     "0x52908400098527886E0F7030069857D2E4169EE7"}

\* An optional argument is <<>> when undefined and <<v>> when given.
QuoteInputs ==
    [chainId : {0, 1, 999},
     sellToken : {"", "0x123",
                  "0xA0b86991c6218b36c1d19D4a2e9Eb0cE3606eB48"},
     buyToken : {"0x123", "0xA0b86991c6218b36c1d19D4a2e9Eb0cE3606eB48",
                 "0xC02aaA39b223FE8D0A0e5C4F27eAD9083C756Cc2"},
     taker : {"", "0x123", "0x52908400098527886E0F7030069857D2E4169EE7"},
     sellAmount : {"", "abc", "0", "5"},
     slippagePercentage : {<<>>, <<0 - 1>>, <<1>>, <<51>>},
     deadline : {<<>>, <<0>>, <<1000>>, <<1060>>, <<4601>>},
     currentTime : {1000}]

IsValidAddress(address) == address \in ValidAddresses

\* chain.utils isChainSupported(chainId): chainId in CHAIN_CONFIGS.
IsChainConfigured(chainId) == chainId \in {1, 137}

\* validateChainId .. validateDeadline and the same-token test, in the
\* order of validateQuoteInputs: the message of the first Error thrown,
\* "ok" when none is.
ValidateQuoteInputs(in) ==
    IF in.chainId <= 0 THEN "Chain ID must be a positive integer"
    ELSE IF ~ IsChainConfigured(in.chainId) THEN "Unsupported chain ID: 999"
    ELSE IF in.sellToken = "" THEN "Token address is required"
    ELSE IF ~ IsValidAddress(in.sellToken) THEN "Invalid token address format"
    ELSE IF ~ IsValidAddress(in.buyToken) THEN "Invalid token address format"
    ELSE IF in.taker = "" THEN "Wallet address is required"
    ELSE IF ~ IsValidAddress(in.taker) THEN "Invalid wallet address format"
    ELSE IF in.sellAmount = "" THEN "Amount is required"
    ELSE IF in.sellAmount = "abc" THEN "Amount must be a valid number"
    ELSE IF in.sellAmount = "0" THEN "Amount must be greater than zero"
    ELSE IF /\ in.slippagePercentage # <<>>
            /\ \/ in.slippagePercentage[1] < 0
               \/ in.slippagePercentage[1] > 50
    THEN "Slippage must be between 0 and 50 percent"
    ELSE IF in.deadline # <<>> /\ in.deadline[1] <= 0
    THEN "Deadline must be a positive integer (timestamp in seconds)"
    ELSE IF in.deadline # <<>> /\ in.deadline[1] <= in.currentTime
    THEN "Deadline must be in the future"
    ELSE IF in.deadline # <<>> /\ in.deadline[1] > in.currentTime + 3600
    THEN "Deadline cannot be more than 1 hour in the future"
    ELSE IF in.sellToken = in.buyToken
    THEN "Sell token and buy token cannot be the same"
    ELSE "ok"

validationErrorMessages ==
    {"Invalid chain ID", "Invalid token address", "Invalid wallet address",
     "Invalid amount", "Invalid slippage", "Deadline must be",
     "Sell token and buy token cannot be the same"}

\* message.includes(phrase), for the messages of the validators and the
\* phrases of validationErrorMessages.
MessageIncludes(message, phrase) ==
    <<message, phrase>> \in
       {<<"Invalid token address format", "Invalid token address">>,
        <<"Invalid wallet address format", "Invalid wallet address">>,
        <<"Deadline must be a positive integer (timestamp in seconds)",
          "Deadline must be">>,
        <<"Deadline must be in the future", "Deadline must be">>,
        <<"Sell token and buy token cannot be the same",
          "Sell token and buy token cannot be the same">>}

\* QuoteService.isValidationError(error)
IsValidationError(message) ==
    \E phrase \in validationErrorMessages : MessageIncludes(message, phrase)

\* QuoteService.getQuote: the quote, a BadRequestException (HTTP 400) or a
\* plain Error (HTTP 500).
QuoteServiceGetQuote ==
    /\ callPc = "request"
    /\ LET message == ValidateQuoteInputs(callArgs)
       IN IF message # "ok"
          THEN callResult' =
                  [thrown |-> IF IsValidationError(message)
                              THEN "BadRequestException" ELSE "Error",
                   message |-> message]
          ELSE \E upstream \in {"ok", "No healthy providers available"} :
                  callResult' =
                     [thrown |-> IF upstream = "ok" THEN "none" ELSE "Error",
                      message |-> upstream]
    /\ callPc' = "getQuote"
    /\ UNCHANGED <<callArgs, nonCallVars>>

NextValidate == QuoteServiceGetQuote

InitValidate ==
    /\ ExecIdle
    /\ MgrIdle
    /\ SelIdle
    /\ FanIdle
    /\ LookupsIdle
    /\ BootIdle
    /\ HttpIdle
    /\ RateIdle
    /\ callPc = "request"
    /\ callArgs \in QuoteInputs
    /\ callResult = <<>>

SpecValidate == InitValidate /\ [][NextValidate]_vars

\* The request fails one of the input rules of getQuote.
RejectedByValidation ==
    \/ callArgs.chainId <= 0
    \/ callArgs.chainId \notin {1, 137}
    \/ callArgs.sellToken \notin ValidAddresses
    \/ callArgs.buyToken \notin ValidAddresses
    \/ callArgs.taker \notin ValidAddresses
    \/ callArgs.sellAmount # "5"
    \/ callArgs.slippagePercentage \in {<<0 - 1>>, <<51>>}
    \/ callArgs.deadline \in {<<0>>, <<1000>>, <<4601>>}
    \/ callArgs.sellToken = callArgs.buyToken

\* C31: every quote request rejected by input validation surfaces as
\* HTTP 400 (BadRequestException), never as a generic error.
C31_ValidationErrorsAre400 ==
    (callPc = "getQuote" /\ RejectedByValidation)
    => callResult.thrown = "BadRequestException"

\* ------------------------------------------------------------------
\* OdosService.getQuote: quote fetch, assembly with one refresh, parse.
\* ------------------------------------------------------------------

\* CustomHttpService.maxRetries: post() is piped through
\* retry({count: config?.retries || maxRetries}); the Odos quote and
\* assemble posts pass no retries.
HttpRetryCount == 3

\* CustomHttpService.post: the request is repeated after every error until
\* it succeeds or 1 + retryCount requests have failed; the error thrown is
\* the last one.
PostOutcomes(errors) ==
    {[requests |-> n, outcome |-> "ok"] : n \in 1..(1 + HttpRetryCount)}
    \cup {[requests |-> 1 + HttpRetryCount, outcome |-> e] : e \in errors}

NoOdosQuote == [pathId |-> "none", outAmount |-> Wei(0, 0)]

NoOdosSwapQuote == [buyAmount |-> Wei(0, 0), minBuyAmount |-> Wei(0, 0),
                    transaction |-> "none"]

OdosOutAmounts == {Wei(0, 199), Wei(0, 1000)}

OdosStart == [fetches |-> 0, assembles |-> 0, refreshes |-> 0,
              quotePosts |-> 0, assemblePosts |-> 0,
              original |-> NoOdosQuote, fresh |-> NoOdosQuote,
              firstError |-> "none", transaction |-> "none",
              swapQuote |-> NoOdosSwapQuote]

\* OdosService.isQuoteExpiredError on the messages the model draws: the
\* upstream's expired-path answer and validateQuoteExpiry's 'Quote has
\* expired' match, a server error does not.
IsQuoteExpiredError(error) == error \in {"pathId expired", "Quote has expired"}

\* assembleTransactionWithRetry, the catch block: refresh when the error
\* is of the expired kind or the quote is older than quoteExpiryMs by now.
ShouldRefresh(error, expiredByNow) ==
    IsQuoteExpiredError(error) \/ expiredByNow

AfterRetryFailure_RefreshAgain == "refresh"

\* The second assembleTransaction sits in the catch block, outside any
\* try: its error leaves assembleTransactionWithRetry.
AfterRetryFailure == "failed"

\* getOdosQuoteWithTimestamp called from getQuote.
OdosFetchQuote ==
    /\ callPc = "getQuote"
    /\ \E post \in PostOutcomes({"HTTP 500"}), out \in OdosOutAmounts :
          /\ callResult' =
                [callResult EXCEPT
                   !.fetches = @ + 1,
                   !.quotePosts = @ + post.requests,
                   !.original = IF post.outcome = "ok"
                                THEN [pathId |-> "p1", outAmount |-> out]
                                ELSE @]
          /\ callPc' = IF post.outcome = "ok" THEN "assemble" ELSE "failed"
    /\ UNCHANGED <<callArgs, nonCallVars>>

\* assembleTransactionWithRetry, the try block: validateQuoteExpiry throws
\* before any request when the quote is already older than quoteExpiryMs;
\* otherwise assembleTransaction posts the original pathId.
OdosAssemble ==
    /\ callPc = "assemble"
    /\ \/ /\ callResult' = [callResult EXCEPT
                              !.firstError = "Quote has expired"]
          /\ callPc' = "refresh"
       \/ \E post \in PostOutcomes({"pathId expired", "HTTP 500"}),
             expiredByNow \in BOOLEAN :
             /\ callResult' =
                   [callResult EXCEPT
                      !.assembles = @ + 1,
                      !.assemblePosts = @ + post.requests,
                      !.firstError = IF post.outcome = "ok" THEN @
                                     ELSE post.outcome,
                      !.transaction = IF post.outcome = "ok"
                                      THEN callResult.original.pathId
                                      ELSE @]
             /\ callPc' = IF post.outcome = "ok" THEN "parse"
                          ELSE IF ShouldRefresh(post.outcome, expiredByNow)
                          THEN "refresh"
                          ELSE "failed"
    /\ UNCHANGED <<callArgs, nonCallVars>>

\* The catch block: getOdosQuoteWithTimestamp(originalRequest).
OdosRefreshQuote ==
    /\ callPc = "refresh"
    /\ \E post \in PostOutcomes({"HTTP 500"}), out \in OdosOutAmounts :
          /\ callResult' =
                [callResult EXCEPT
                   !.fetches = @ + 1,
                   !.refreshes = @ + 1,
                   !.quotePosts = @ + post.requests,
                   !.fresh = IF post.outcome = "ok"
                             THEN [pathId |-> "p2", outAmount |-> out]
                             ELSE @]
          /\ callPc' = IF post.outcome = "ok" THEN "reassemble" ELSE "failed"
    /\ UNCHANGED <<callArgs, nonCallVars>>

\* The catch block: assembleTransaction(freshQuote.response.pathId).
OdosReassemble ==
    /\ callPc = "reassemble"
    /\ \E post \in PostOutcomes({"pathId expired", "HTTP 500"}) :
          /\ callResult' =
                [callResult EXCEPT
                   !.assembles = @ + 1,
                   !.assemblePosts = @ + post.requests,
                   !.transaction = IF post.outcome = "ok"
                                   THEN callResult.fresh.pathId
                                   ELSE @]
          /\ callPc' = IF post.outcome = "ok" THEN "parse"
                       ELSE AfterRetryFailure
    /\ UNCHANGED <<callArgs, nonCallVars>>

\* getQuote: parseSwapQuote(quoteWithTimestamp.response, assembleResponse,
\* request), where quoteWithTimestamp is the quote getQuote itself fetched.
OdosParse ==
    /\ callPc = "parse"
    /\ callResult' =
          [callResult EXCEPT
             !.swapQuote =
                [buyAmount |-> callResult.original.outAmount,
                 minBuyAmount |-> CalculateMinOutput(
                                      callResult.original.outAmount,
                                      callArgs.slippage),
                 transaction |-> callResult.transaction]]
    /\ callPc' = "done"
    /\ UNCHANGED <<callArgs, nonCallVars>>

NextOdos ==
    \/ OdosFetchQuote
    \/ OdosAssemble
    \/ OdosRefreshQuote
    \/ OdosReassemble
    \/ OdosParse

InitOdos ==
    /\ ExecIdle
    /\ MgrIdle
    /\ SelIdle
    /\ FanIdle
    /\ LookupsIdle
    /\ BootIdle
    /\ HttpIdle
    /\ RateIdle
    /\ callPc = "getQuote"
    /\ callArgs \in [slippage : {"0.5", "1"}]
    /\ callResult = OdosStart

SpecOdos == InitOdos /\ [][NextOdos]_vars

\* C32: one getQuote refreshes the pathId at most once, and only after the
\* first assembly attempt failed; it calls getOdosQuoteWithTimestamp and
\* assembleTransaction at most twice each, and a failure of the second
\* assembly ends the call.  Each of those calls sends up to
\* 1 + HttpRetryCount requests.
C32_RefreshOnce ==
    /\ callResult.refreshes <= 1
    /\ callResult.fetches <= 2
    /\ callResult.assembles <= 2
    /\ callResult.fetches = 1 + callResult.refreshes
          \/ callPc = "getQuote"
    /\ callResult.refreshes = 1 => callResult.firstError # "none"
    /\ callResult.quotePosts <= 2 * (1 + HttpRetryCount)
    /\ callResult.assemblePosts <= 2 * (1 + HttpRetryCount)

\* The pathId expired upstream, was refreshed, and the second assembly
\* failed as well.
C32_Witness ==
    /\ callPc = "failed"
    /\ callResult.firstError = "pathId expired"
    /\ callResult.refreshes = 1
    /\ callResult.assembles = 2

\* C38: the returned SwapQuote takes buyAmount and minBuyAmount from the
\* upstream quote whose pathId was assembled into its transaction.
C38_AmountsFromAssembledQuote ==
    callPc = "done" =>
       \E q \in {callResult.original, callResult.fresh} :
          /\ q.pathId = callResult.swapQuote.transaction
          /\ callResult.swapQuote.buyAmount = q.outAmount
          /\ callResult.swapQuote.minBuyAmount =
                CalculateMinOutput(q.outAmount, callArgs.slippage)

\* ------------------------------------------------------------------
\* Universal quote: recommended route and origin of the routes
\* ------------------------------------------------------------------

\* A universal quote on chain 1 answered by the two adapters 0x and Odos,
\* the only ones registered.
BothQuotedOnChainOne ==
    /\ fanKind = "gateway"
    /\ fanPc = "done"
    /\ fanChain = 1
    /\ Range(evmAggregators) = {"0x", "Odos"}
    /\ FulfilledProviders = {"0x", "Odos"}

\* C33: with 0x and Odos both quoting on chain 1 the universal quote has
\* two routes and routes[0], the recommended route, is the one built from
\* the 0x quote, whichever adapter registered first.
C33_ZeroXRecommended ==
    BothQuotedOnChainOne =>
       /\ Len(fanResult) = 2
       /\ fanResult[1].source = "0x"

\* C39: every route of a successful universal quote was built from the
\* quote of a registered adapter; without such a quote the request fails.
C39_NoFabricatedRoute ==
    (fanPc = "done"
        /\ fanKind \in {"gateway", "meta", "native-l1", "solana"}) =>
       \A k \in 1..Len(fanResult) :
          fanResult[k].source \in Range(evmAggregators)

\* C36: every entry of QuoteService.getMultipleQuotes carries the label of
\* the adapter that produced its quote, the quote's own aggregator field
\* says the same, and no adapter's quote appears in two entries.
C36_EntriesLabelledByQuotingAdapter ==
    (fanKind = "legacy" /\ fanPc = "done") =>
       /\ \A k \in 1..Len(fanResult) :
             /\ fanResult[k].aggregator = ToLowerCase(fanResult[k].source)
             /\ fanResult[k].aggregator =
                   ConvertToLegacyAggregator(fanResult[k].source)
       /\ \A k, l \in 1..Len(fanResult) :
             fanResult[k].source = fanResult[l].source => k = l

\* ------------------------------------------------------------------
\* executeSwap: broadcasts and the receipt status
\* ------------------------------------------------------------------

\* C34: one executeSwap call has at most one swap transaction accepted by
\* the network; an attempt that threw after its transaction was accepted
\* is not followed by another broadcast.
C34_AtMostOneBroadcast == broadcasts <= 1

\* C35: executeSwap returns a SwapResult only when the confirmed receipt's
\* status is success.
C35_ResultOnlyOnSuccessReceipt ==
    pc = "done" => receiptStatus = "success"

\* ------------------------------------------------------------------
\* Rate limiting: rejections and retryAfter
\* ------------------------------------------------------------------

\* Burst i of the history had a request rejected.
RejectedIn(i) == history[i].admitted < history[i].issued

\* The last burst of a client in the history, 0 when it sent none.
LastBurstOf(ip) ==
    LET own == {i \in 1..Len(history) : history[i].ip = ip}
    IN IF own = {} THEN 0 ELSE CHOOSE i \in own : \A j \in own : j <= i

\* C40: a rate-limited client is never locked out: its rejected requests
\* leave the end of its window where it was, and a request it sends once
\* the announced retryAfter seconds have elapsed is admitted.
C40_NeverLockedOut ==
    /\ \A ip \in ClientIps :
          LET k == LastBurstOf(ip)
          IN (k # 0 /\ RejectedIn(k)) =>
                \/ requests[ip] = NoEntry
                \/ requests[ip].resetTime
                      = history[k].at + history[k].retryAfter
    /\ \A i, j \in 1..Len(history) :
          (/\ i < j
           /\ history[i].ip = history[j].ip
           /\ RejectedIn(i)
           /\ history[j].at >= history[i].at + history[i].retryAfter)
          => history[j].admitted >= 1

\* C37: for the same chain, token, owner, spender, amount and on-chain
\* state, getApprovalStatus(...).isApprovalNeeded is the answer of
\* isApprovalNeeded.
C37_StatusAgreesWithIsApprovalNeeded ==
    callPc = "getApprovalStatus" =>
       callResult.isApprovalNeeded = ApprovalServiceIsApprovalNeeded(callArgs)
====
